---- MODULE Spec2Model ----
(***************************************************************************)
(* A model of the batched bridge of ReactKit (ReactKit/Base/RCTBridge.m):  *)
(* the registry tables built from the discovered classes and exports, the  *)
(* calls from the host into the script runtime, the decoding of the        *)
(* flushed queue the script runtime answers with, the units scheduled on   *)
(* the serial shadow queue, the response sender blocks and invalidation.   *)
(***************************************************************************)
EXTENDS Integers, Sequences, FiniteSets, TLC

(***************************************************************************)
(* Bounds of the model.                                                    *)
(***************************************************************************)
\* calls of enqueueJSCall:args: in one behaviour
MaxCalls == 1
\* invocations of response sender blocks in one behaviour
MaxBlockCalls == 2
\* buffers handed to _handleBuffer: in one behaviour
MaxBuffers == 1

(***************************************************************************)
(* Values of the structured-value codec (what RCTJSONParse hands over).    *)
(***************************************************************************)
Nil == [t |-> "nil"]
Null == [t |-> "null"]
Num(n) == [t |-> "num", v |-> n]
Str(s) == [t |-> "str", v |-> s]
Arr(s) == [t |-> "arr", v |-> s]
Block(c) == [t |-> "block", v |-> c]
\* an NSDictionary of no entries (its count is 0)
Dict == [t |-> "dict", v |-> <<>>]

\* [x isKindOfClass:[NSArray class]]
IsArray(x) == x.t = "arr"

\* the orders in which an NSDictionary holding the keys S may enumerate them
Orders(S) == {s \in [1..Cardinality(S) -> S] : \A i, j \in 1..Cardinality(S) : s[i] = s[j] => i = j}

RangeOf(s) == {s[i] : i \in 1..Len(s)}

(***************************************************************************)
(* The process image: the classes the runtime lists and the entries of the *)
(* RCTExport section.  A class is described by what the bridge asks of it. *)
(***************************************************************************)
\* position of an '.'-separated name: componentsSeparatedByString:@"."
Dot == "."

ClassList == <<
  [name |-> "NSObject", superclass |-> FALSE, conforms |-> FALSE, moduleName |-> "",
   JSMethods |-> <<>>, overridesJSMethods |-> FALSE, responds |-> {}],
  [name |-> "RCTAlpha", superclass |-> TRUE, conforms |-> TRUE, moduleName |-> "Alpha",
   JSMethods |-> << <<"RCTEventEmitter", Dot, "receiveEvent">>, <<"Alpha", Dot, "emit">> >>,
   overridesJSMethods |-> TRUE,
   responds |-> {"invalidate", "batchDidComplete", "registerRootView"}],
  [name |-> "RCTBeta", superclass |-> TRUE, conforms |-> TRUE, moduleName |-> "",
   JSMethods |-> << <<"Alpha", Dot, "set">>, <<"Alpha", Dot, "emit">> >>,
   overridesJSMethods |-> TRUE, responds |-> {"invalidate"}],
  [name |-> "RCTPlain", superclass |-> TRUE, conforms |-> FALSE, moduleName |-> "",
   JSMethods |-> <<>>, overridesJSMethods |-> FALSE, responds |-> {}]
>>

\* the instance methods of the classes: selector -> encoded argument types
\* after self and _cmd ("@?" is the encoding of a block)
MethodTable == [c \in {"RCTAlpha", "RCTBeta", "RCTPlain"} |->
  IF c = "RCTAlpha"
  THEN [s \in {<<"ping">>, <<"fetch", "callback">>} |->
          IF s = <<"ping">> THEN <<>> ELSE <<"i", "@?">>]
  ELSE IF c = "RCTBeta"
  THEN [s \in {<<"log">>, <<"log", "level">>} |->
          IF s = <<"log">> THEN <<"@">> ELSE <<"@", "i">>]
  ELSE [s \in {<<"draw">>} |-> <<>>]]

\* the entries of the RCTExport section, in section order; each is the
\* scanned "-[Class selector]" string and the explicit JS name ("" if none)
ExportSection == <<
  [plusMinus |-> "-", className |-> "RCTAlpha", selector |-> <<"ping">>, js |-> ""],
  [plusMinus |-> "-", className |-> "RCTAlpha", selector |-> <<"fetch", "callback">>, js |-> "get"],
  [plusMinus |-> "-", className |-> "RCTGone", selector |-> <<"ping">>, js |-> ""],
  [plusMinus |-> "-", className |-> "RCTBeta", selector |-> <<"log">>, js |-> ""],
  [plusMinus |-> "-", className |-> "RCTBeta", selector |-> <<"missing">>, js |-> ""]
>>

ClassNames == {ClassList[i].name : i \in 1..Len(ClassList)}

\* a class of another image of the process: a second module class that
\* returns "Alpha" from +moduleName
RCTAlphaToo ==
  [name |-> "RCTAlphaToo", superclass |-> TRUE, conforms |-> TRUE, moduleName |-> "Alpha",
   JSMethods |-> <<>>, overridesJSMethods |-> FALSE, responds |-> {}]

\* NSClassFromString
ClassNamed(n) == CHOOSE c \in RangeOf(ClassList) \cup {RCTAlphaToo} : c.name = n

\* [cls respondsToSelector:@selector(moduleName)] ? [cls moduleName] : NSStringFromClass(cls)
ModuleNameOf(cls) == IF cls.moduleName # "" THEN cls.moduleName ELSE cls.name

\* class_getInstanceMethod: the argument types, or "none"
GetInstanceMethod(className, selector) ==
  IF className \in DOMAIN MethodTable /\ selector \in DOMAIN MethodTable[className]
  THEN MethodTable[className][selector] ELSE "none"

\* one RCTModuleMethod of an export entry (lines 132-148)
ModuleMethodOf(entry) ==
  LET types == GetInstanceMethod(entry.className, entry.selector)
      argumentCount == Len(types) + 2
  IN [selector |-> entry.selector,
      JSMethodName |-> IF entry.js # "" THEN entry.js ELSE entry.selector[1],
      arity |-> argumentCount - 2,
      blockArgumentIndexes |-> {i - 2 : i \in {k \in 2..(argumentCount - 1) : types[k - 1] = "@?"}},
      types |-> types]

\* dictionary assignment d[k] = v
Put(d, k, v) == [x \in DOMAIN d \cup {k} |-> IF x = k THEN v ELSE d[x]]

EmptyDict == [x \in {} |-> 0]

RECURSIVE ExportedMethodsFrom(_, _, _)
ExportedMethodsFrom(section, i, methodsByModule) ==
  IF i > Len(section) THEN methodsByModule
  ELSE LET entry == section[i] IN
       IF \/ entry.className \notin ClassNames
          \/ GetInstanceMethod(entry.className, entry.selector) = "none"
       THEN ExportedMethodsFrom(section, i + 1, methodsByModule)
       ELSE LET moduleName == ModuleNameOf(ClassNamed(entry.className))
                moduleMethod == ModuleMethodOf(entry)
            IN ExportedMethodsFrom(section, i + 1,
                 Put(methodsByModule, moduleName,
                     IF moduleName \in DOMAIN methodsByModule
                     THEN Append(methodsByModule[moduleName], moduleMethod)
                     ELSE <<moduleMethod>>))

\* module name -> the RCTModuleMethods of the module, in section order
RCTExportedMethodsByModule == ExportedMethodsFrom(ExportSection, 1, EmptyDict)

RECURSIVE BridgeModuleClassesFrom(_, _, _)
BridgeModuleClassesFrom(classes, i, modules) ==
  IF i > Len(classes) THEN modules
  ELSE LET cls == classes[i] IN
       IF ~cls.superclass \/ ~cls.conforms
       THEN BridgeModuleClassesFrom(classes, i + 1, modules)
       ELSE BridgeModuleClassesFrom(classes, i + 1, Put(modules, ModuleNameOf(cls), cls.name))

\* module name -> class, for the classes conforming to RCTBridgeModule
RCTBridgeModuleClasses == BridgeModuleClassesFrom(ClassList, 1, EmptyDict)

(***************************************************************************)
(* RCTRemoteModulesConfig: the modules and methods JS calls, with the IDs  *)
(* used on the wire.  keyOrder is the order in which the dictionary of     *)
(* exported methods enumerates its keys.                                   *)
(***************************************************************************)
\* the method IDs counted from one
RemoteMethodEntryFromOne(methodID) == [methodID |-> methodID + 1, type |-> "remote"]

\* lines 241-244: the entry of the method enumerated at index methodID
RemoteMethodEntry(methodID) == [methodID |-> methodID, type |-> "remote"]

RECURSIVE RemoteMethodsFrom(_, _, _)
RemoteMethodsFrom(rawMethods, i, methods) ==
  IF i > Len(rawMethods) THEN methods
  ELSE RemoteMethodsFrom(rawMethods, i + 1,
         Put(methods, rawMethods[i].JSMethodName, RemoteMethodEntry(i - 1)))

\* lines 234-262, for the exported methods of any image of the process
RECURSIVE RemoteModulesOver(_, _, _, _)
RemoteModulesOver(methodsByModule, keyOrder, i, acc) ==
  IF i > Len(keyOrder) THEN acc
  ELSE LET moduleName == keyOrder[i]
           rawMethods == methodsByModule[moduleName]
           module == [moduleID |-> Cardinality(DOMAIN acc.remoteModules),
                      methods |-> RemoteMethodsFrom(rawMethods, 1, EmptyDict)]
       IN RemoteModulesOver(methodsByModule, keyOrder, i + 1,
            [remoteModules |-> Put(acc.remoteModules, moduleName, module),
             byID |-> Put(acc.byID, module.moduleID, moduleName)])

RemoteModulesFrom(keyOrder, i, acc) ==
  RemoteModulesOver(RCTExportedMethodsByModule, keyOrder, i, acc)

RCTRemoteModulesConfig(keyOrder) ==
  RemoteModulesFrom(keyOrder, 1, [remoteModules |-> EmptyDict, byID |-> EmptyDict])

(***************************************************************************)
(* RCTLocalModulesConfig: the JS modules and methods the host calls.       *)
(* classOrder is the order of RCTBridgeModuleClasses().allValues.          *)
(***************************************************************************)
\* the globally used methods (lines 304-308)
GlobalJSMethods == <<
  <<"Bundler", Dot, "runApplication">>,
  <<"RCTEventEmitter", Dot, "receiveEvent">>,
  <<"RCTEventEmitter", Dot, "receiveTouches">> >>

RECURSIVE JSMethodsFrom(_, _, _)
JSMethodsFrom(classOrder, i, JSMethods) ==
  IF i > Len(classOrder) THEN JSMethods
  ELSE LET cls == ClassNamed(classOrder[i]) IN
       JSMethodsFrom(classOrder, i + 1,
         IF cls.overridesJSMethods THEN JSMethods \o cls.JSMethods ELSE JSMethods)

\* componentsSeparatedByString: of a name given as its tokens
RECURSIVE ComponentsSeparatedBy(_, _)
ComponentsSeparatedBy(s, sep) ==
  IF \A i \in 1..Len(s) : s[i] # sep THEN <<s>>
  ELSE LET k == CHOOSE i \in 1..Len(s) : s[i] = sep /\ \A j \in 1..(i - 1) : s[j] # sep
       IN <<SubSeq(s, 1, k - 1)>> \o ComponentsSeparatedBy(SubSeq(s, k + 1, Len(s)), sep)

\* the count of the methods of the module, less one, instead of the stored ID
MethodIDLookupLast(methods, methodName) == Cardinality(DOMAIN methods) - 1

\* line 352: the method ID stored for the lookup by "Module.method"
MethodIDLookup(methods, methodName) == methods[methodName].methodID

RECURSIVE LocalModulesFrom(_, _, _)
LocalModulesFrom(JSMethods, i, acc) ==
  IF i > Len(JSMethods) THEN acc
  ELSE LET moduleDotMethod == JSMethods[i]
           parts == ComponentsSeparatedBy(moduleDotMethod, Dot)
           moduleName == parts[1]
           methodName == parts[2]
           module == IF moduleName \in DOMAIN acc.localModules
                     THEN acc.localModules[moduleName]
                     ELSE [moduleID |-> Cardinality(DOMAIN acc.localModules),
                           methods |-> EmptyDict]
           methods == IF methodName \in DOMAIN module.methods
                      THEN module.methods
                      ELSE Put(module.methods, methodName,
                               [methodID |-> Cardinality(DOMAIN module.methods), type |-> "local"])
       IN LocalModulesFrom(JSMethods, i + 1,
            [localModules |-> Put(acc.localModules, moduleName,
                                  [moduleID |-> module.moduleID, methods |-> methods]),
             moduleIDs |-> Put(acc.moduleIDs, moduleDotMethod, module.moduleID),
             methodIDs |-> Put(acc.methodIDs, moduleDotMethod, MethodIDLookup(methods, methodName))])

RCTLocalModulesConfig(classOrder) ==
  LocalModulesFrom(JSMethodsFrom(classOrder, 1, GlobalJSMethods), 1,
                   [localModules |-> EmptyDict, moduleIDs |-> EmptyDict, methodIDs |-> EmptyDict])

(***************************************************************************)
(* The state of the process and of one bridge.                             *)
(***************************************************************************)
VARIABLES
  RCTRemoteModulesByID,  \* static: module ID -> module name
  remoteModules,         \* static: the remote modules config
  RCTLocalModuleIDs,     \* static: "Module.method" -> module ID
  RCTLocalMethodIDs,     \* static: "Module.method" -> method ID
  localModules,          \* static: the local modules config
  latestJSExecutor,      \* static: _latestJSExecutor
  javaScriptExecutor,    \* _javaScriptExecutor: "executor" or "nil"
  moduleInstances,       \* _moduleInstances: the names holding an instance
  shadowQueue,           \* the units waiting on _shadowQueue, oldest first
  running,               \* the unit whose invocation is executing on the queue
  handling,              \* position of the JS thread inside _handleBuffer:
  invalidating,          \* position of each thread inside invalidate
  sent,                  \* the calls handed to the executor, in order
  answered,              \* the calls whose callback the executor has run
  buffers,               \* the buffers handed to _handleBuffer:, in order
  scheduled,             \* the requests put on the queue, as <<buffer, index>>
  invoked,               \* the invocations made, in order
  logged,                \* what RCTLogMustFix reported
  notified,              \* the batchDidComplete rounds delivered, in order
  tornDown,              \* module name -> calls of its invalidate hook
  liveBlocks,            \* callback IDs of the response sender blocks made
  calls,                 \* the calls of enqueueJSCall:args:, in order
  blockCalls,            \* the invocations of response sender blocks
  fatal,                 \* the exception that ended the process, or "none"
  registering,           \* position of the caller inside registerRootView:
  waitedFor,             \* thread -> the units queued when its dispatch_sync began
  finished,              \* the invocations that have returned or raised
  construction,          \* position of the creator inside -initWithJavaScriptExecutor:
  image,                 \* the classes and the export section of the process
  invocations,           \* the static dictionary of +invocationForAdditionalArguments:
  cacheCalls,            \* thread -> its call of +invocationForAdditionalArguments:
  emitter,               \* the call of receiveTouches of ReactIOSEventEmitter.js
  script                 \* the call of -enqueueApplicationScript:url:onComplete:

staticVars == <<RCTRemoteModulesByID, remoteModules, RCTLocalModuleIDs,
                RCTLocalMethodIDs, localModules>>
queueVars == <<shadowQueue, running, scheduled, invoked, notified, liveBlocks>>
hostVars == <<sent, calls, blockCalls>>
lifeVars == <<latestJSExecutor, javaScriptExecutor, moduleInstances, invalidating, tornDown>>
\* what the actions of a constructed bridge leave alone unless they say so
\* the state of the process outside the bridge: its image, the cache of
\* +invocationForAdditionalArguments: and the JS event emitter
processVars == <<image, invocations, cacheCalls, emitter, script>>
frameVars == <<staticVars, registering, waitedFor, finished, construction, processVars>>
vars == <<frameVars, queueVars, hostVars, lifeVars, handling, answered, buffers, logged, fatal>>

Threads == {"t1", "t2"}
NoUnit == [kind |-> "none"]
Idle == [buffer |-> 0, i |-> 0]

\* -initWithJavaScriptExecutor: has returned, the configuration injected once
\* and acknowledged
Returned == [pc |-> "returned", injections |-> 1, acknowledged |-> TRUE, timedOut |-> FALSE]

\* the static 'invocations' before its dispatch_once, no call of
\* +invocationForAdditionalArguments:, no call of receiveTouches
NoDictionary == [built |-> FALSE, entries |-> EmptyDict, writers |-> {}, created |-> 0]
NoCacheCall == [pc |-> "idle", argCount |-> 0, invocation |-> 0, returned |-> <<>>]
NoTouches == [pc |-> "idle"]
NoScript == [pc |-> "idle", completions |-> <<>>, flushedQueueRequests |-> 0, buffer |-> 0]

\* no call of -registerRootView: yet
NotRegistering == [pc |-> "idle", target |-> "", todo |-> {}]

\* validity read off the static _latestJSExecutor
isValidLatest == latestJSExecutor # "nil"

\* -isValid
isValid == javaScriptExecutor # "nil"

\* -initWithJavaScriptExecutor: with the tables built by the first bridge
InitWith(keyOrder, classOrder) ==
  LET remote == RCTRemoteModulesConfig(keyOrder)
      local == RCTLocalModulesConfig(classOrder)
  IN /\ RCTRemoteModulesByID = remote.byID
     /\ remoteModules = remote.remoteModules
     /\ RCTLocalModuleIDs = local.moduleIDs
     /\ RCTLocalMethodIDs = local.methodIDs
     /\ localModules = local.localModules
     /\ latestJSExecutor = "executor"
     /\ javaScriptExecutor = "executor"
     /\ moduleInstances = DOMAIN RCTBridgeModuleClasses
     /\ shadowQueue = <<>>
     /\ running = NoUnit
     /\ handling = Idle
     /\ invalidating = [t \in Threads |-> "idle"]
     /\ sent = <<>>
     /\ answered = {}
     /\ buffers = <<>>
     /\ scheduled = {}
     /\ invoked = <<>>
     /\ logged = {}
     /\ notified = <<>>
     /\ tornDown = [m \in DOMAIN RCTBridgeModuleClasses |-> 0]
     /\ liveBlocks = {}
     /\ calls = <<>>
     /\ blockCalls = <<>>
     /\ fatal = "none"
     /\ registering = NotRegistering
     /\ waitedFor = [t \in Threads |-> {}]
     /\ finished = 0
     /\ construction = Returned
     /\ image = [classes |-> ClassList, section |-> ExportSection]
     /\ invocations = NoDictionary
     /\ cacheCalls = [t \in Threads |-> NoCacheCall]
     /\ emitter = NoTouches
     /\ script = NoScript

Init ==
  \E keyOrder \in Orders(DOMAIN RCTExportedMethodsByModule) :
    \E classOrder \in Orders({RCTBridgeModuleClasses[m] : m \in DOMAIN RCTBridgeModuleClasses}) :
      InitWith(keyOrder, classOrder)

(***************************************************************************)
(* Host to script: enqueueJSCall:args: and the response sender blocks.     *)
(***************************************************************************)
\* the call reaching an executor that -invalidate did not take away
InvokeAndProcessModuleKept(by, module, method, args) ==
  sent' = Append(sent, [by |-> by, module |-> module, method |-> method, arguments |-> args])

\* -_invokeAndProcessModule:method:arguments: a message to a nil executor
\* does nothing
\* (by names the call of the host the envelope comes from)
InvokeAndProcessModule(by, module, method, args) ==
  sent' = IF javaScriptExecutor # "nil"
          THEN Append(sent, [by |-> by, module |-> module, method |-> method, arguments |-> args])
          ELSE sent

\* the names and argument lists the host calls with
NameInputs == {<<"RCTEventEmitter", Dot, "receiveEvent">>, <<"Alpha", Dot, "emit">>,
               <<"Unregistered", Dot, "method">>}
ArgsInputs == {<<>>, <<Str("ok")>>}

\* dictionary[key], nil when the key is absent
Lookup(dictionary, key) == IF key \in DOMAIN dictionary THEN Num(dictionary[key]) ELSE Nil

\* no assertion and no nil check
EnqueueRaisesNever(moduleID, methodID) == FALSE

\* lines 452, 456 and 460: RCTAssert raises for a nil ID, and where
\* assertions are compiled out the array literal raises for it
EnqueueRaises(moduleID, methodID) == moduleID = Nil \/ methodID = Nil

\* -enqueueJSCall:args:  A failed RCTAssert raises; where assertions are
\* compiled out the array literal holding nil raises instead.
enqueueJSCall(moduleDotMethod, args) ==
  /\ fatal = "none"
  /\ Len(calls) < MaxCalls
  /\ calls' = Append(calls, [name |-> moduleDotMethod, args |-> args, valid |-> isValid])
  /\ LET moduleID == Lookup(RCTLocalModuleIDs, moduleDotMethod)
         methodID == Lookup(RCTLocalMethodIDs, moduleDotMethod)
     IN IF EnqueueRaises(moduleID, methodID)
        THEN /\ fatal' \in {"RCTAssert", "NSInvalidArgumentException"}
             /\ UNCHANGED sent
        ELSE /\ InvokeAndProcessModule(<<"call", Len(calls) + 1>>, "BatchedBridge",
                  "callFunctionReturnFlushedQueue", <<moduleID, methodID, Arr(args)>>)
             /\ UNCHANGED fatal
  /\ UNCHANGED <<frameVars, queueVars, lifeVars, blockCalls, handling, answered, buffers, logged>>

\* a sender that answers each callback ID only once
sendResponseOnce(by, cbID, args) ==
  IF \E i \in DOMAIN sent : /\ sent[i].method = "invokeCallbackAndReturnFlushedQueue"
                             /\ sent[i].arguments[1] = Num(cbID)
  THEN UNCHANGED sent
  ELSE InvokeAndProcessModule(by, "BatchedBridge", "invokeCallbackAndReturnFlushedQueue",
                              <<Num(cbID), Arr(args)>>)

\* -_sendResponseToJavaScriptCallbackID:args:
sendResponseToJavaScriptCallbackID(by, cbID, args) ==
  InvokeAndProcessModule(by, "BatchedBridge", "invokeCallbackAndReturnFlushedQueue",
                         <<Num(cbID), Arr(args)>>)

\* -createResponseSenderBlock: nil for the ID 0, else a block bound to the ID
createResponseSenderBlock(cbID) == IF cbID = 0 THEN Nil ELSE Block(cbID)

\* a module invokes a response sender block it was handed
CallBlock(cbID, args) ==
  /\ fatal = "none"
  /\ cbID \in liveBlocks
  /\ Len(blockCalls) < MaxBlockCalls
  /\ blockCalls' = Append(blockCalls, [id |-> cbID, args |-> args, valid |-> isValid])
  /\ sendResponseToJavaScriptCallbackID(<<"block", Len(blockCalls) + 1>>, cbID, args)
  /\ UNCHANGED <<frameVars, queueVars, lifeVars, calls, handling, answered, buffers, logged, fatal>>

(***************************************************************************)
(* Script to host: decoding a flushed queue (_handleBuffer:).              *)
(***************************************************************************)
\* RCTBridgeFields
RCTBridgeFieldRequestModuleIDs == 0
RCTBridgeFieldMethodIDs == 1
RCTBridgeFieldParamss == 2
RCTBridgeFieldResponseCBIDs == 3
RCTBridgeFieldResponseReturnValues == 4
RCTBridgeFieldFlushDateMillis == 5

\* every field of RCTBridgeFields counted
expectedFieldsCountAll == RCTBridgeFieldFlushDateMillis + 1

expectedFieldsCount == RCTBridgeFieldResponseReturnValues + 1

\* what an index out of range stands for: NSRangeException
Raised == [t |-> "raised"]

\* objectAtIndex: with the index counted from 0
ObjectAtIndex(array, index) ==
  IF array.t = "arr" /\ index + 1 \in DOMAIN array.v THEN array.v[index + 1] ELSE Raised

\* only the module IDs and the method IDs compared
AllSamePair(moduleIDs, methodIDs, paramsArrays) == Len(moduleIDs.v) = Len(methodIDs.v)

\* lines 549-550: the three arrays hold the same number of entries
AllSame(moduleIDs, methodIDs, paramsArrays) ==
  LET numRequests == Len(moduleIDs.v)
  IN numRequests = Len(methodIDs.v) /\ numRequests = Len(paramsArrays.v)

\* the checks of _handleBuffer: before its loop: "ok", or why it returns
BufferShape(buffer) ==
  IF buffer = Nil \/ buffer = Null THEN "empty"
  ELSE IF ~IsArray(buffer) THEN "notArray"
  ELSE IF Len(buffer.v) # expectedFieldsCount THEN "fieldCount"
  ELSE IF \E fieldIndex \in RCTBridgeFieldRequestModuleIDs..RCTBridgeFieldParamss :
            ~IsArray(ObjectAtIndex(buffer, fieldIndex))
       THEN "fieldNotArray"
  ELSE IF ~AllSame(ObjectAtIndex(buffer, RCTBridgeFieldRequestModuleIDs),
                   ObjectAtIndex(buffer, RCTBridgeFieldMethodIDs),
                   ObjectAtIndex(buffer, RCTBridgeFieldParamss))
       THEN "lengths"
  ELSE "ok"

\* NSUInteger arithmetic is modulo 2^32 or 2^64; the model keeps the
\* wrap-around on a narrower word that still holds every value it uses
NSUIntegerModulus == 2^30
AsNSUInteger(n) == n % NSUIntegerModulus

\* -integerValue of a number
IntegerValue(x) == IF x.t = "num" THEN x.v ELSE 0

\* the comparison made on signed integers
MethodIDOutOfRangeSigned(methodID, methods) == methodID >= Len(methods)

\* line 592: methodID >= methods.count, an NSInteger against an NSUInteger
MethodIDOutOfRange(methodID, methods) == AsNSUInteger(methodID) >= Len(methods)

\* only too many arguments refused
ArityMismatchAbove(params, method) == Len(params.v) > method.arity

\* line 599: params.count != methodArity
ArityMismatch(params, method) == Len(params.v) # method.arity

\* params of any class let through
InvalidTupleNever(params) == FALSE

\* line 580: ![params isKindOfClass:[NSArray class]]
InvalidTuple(params) == ~IsArray(params)

\* the checks of _handleRequestNumber: before it schedules: "ok", or why
\* it returns NO, or "raised" for an index out of range
RequestCheck(moduleID, methodID, params) ==
  IF moduleID = Raised \/ params = Raised THEN "raised"
  ELSE IF InvalidTuple(params) THEN "invalidTuple"
  ELSE IF ~(moduleID.t = "num" /\ moduleID.v \in DOMAIN RCTRemoteModulesByID)
       THEN "unknownModuleID"
  ELSE LET moduleName == RCTRemoteModulesByID[moduleID.v]
           methods == RCTExportedMethodsByModule[moduleName]
       IN IF MethodIDOutOfRange(methodID, methods) THEN "unknownMethodID"
          ELSE IF methodID + 1 \notin DOMAIN methods THEN "raised"
          ELSE IF ArityMismatch(params, methods[methodID + 1]) THEN "arity"
          ELSE "ok"

\* the loop left at the first request refused
LoopAdvanceUntilRefused(i, numRequests, handled) == IF handled THEN i + 1 ELSE numRequests

\* lines 556-563: the loop goes on to the next index whatever
\* _handleRequestNumber: returned
LoopAdvance(i, numRequests, handled) == i + 1

\* the unit _handleRequestNumber: puts on the shadow queue
RequestUnit(buffer, i, moduleID, methodID, params) ==
  LET moduleName == RCTRemoteModulesByID[moduleID.v]
  IN [kind |-> "request", buffer |-> buffer, index |-> i, moduleName |-> moduleName,
      methodID |-> methodID,
      method |-> RCTExportedMethodsByModule[moduleName][methodID + 1],
      params |-> params.v]

\* a callback only for the calls of the host, none for the responses
ProcessResponseOfCalls(envelope) == envelope.method = "callFunctionReturnFlushedQueue"

\* lines 488-503: every envelope goes to the executor with the
\* processResponse block as its callback
ProcessResponse(envelope) == TRUE

\* the executor runs the callback of a call with the flushed queue of the
\* script side, and _handleBuffer: checks its shape; max bounds the buffers
\* of one behaviour
JSCallbackUpTo(pool, max) ==
  /\ fatal = "none"
  /\ handling = Idle
  /\ Len(buffers) < max
  /\ \E e \in {x \in (1..Len(sent)) \ answered : ProcessResponse(sent[x])}, buffer \in pool :
       LET shape == BufferShape(buffer)
           id == Len(buffers) + 1
       IN /\ answered' = answered \cup {e}
          /\ buffers' = Append(buffers, [value |-> buffer, source |-> e, valid |-> isValid,
                                         shape |-> shape, done |-> shape # "ok"])
          /\ logged' = IF shape \in {"ok", "empty"} THEN logged
                       ELSE logged \cup {[buffer |-> id, index |-> -1, kind |-> shape]}
          /\ handling' = IF shape = "ok" THEN [buffer |-> id, i |-> 0] ELSE Idle
  /\ UNCHANGED <<frameVars, queueVars, hostVars, lifeVars, fatal>>

JSCallback(pool) == JSCallbackUpTo(pool, MaxBuffers)

\* a queue that runs the newest block first
dispatch_asyncFirst(queue, unit) == <<unit>> \o queue

\* dispatch_async on the serial _shadowQueue (created at line 373): the block
\* goes behind every block put there before
dispatch_async(queue, unit) == Append(queue, unit)

\* a round only for a buffer that carried requests
CompletionUnitsIfAny(buffer, numRequests) ==
  IF numRequests = 0 THEN <<>> ELSE <<[kind |-> "batchDidComplete", buffer |-> buffer]>>

\* lines 565-572: one batchDidComplete block for the buffer, whatever the
\* number of its requests
CompletionUnits(buffer, numRequests) == <<[kind |-> "batchDidComplete", buffer |-> buffer]>>

NumRequests(buffer) == Len(ObjectAtIndex(buffer, RCTBridgeFieldRequestModuleIDs).v)
ModuleIDAt(buffer, i) == ObjectAtIndex(ObjectAtIndex(buffer, RCTBridgeFieldRequestModuleIDs), i)
MethodIDAt(buffer, i) == IntegerValue(ObjectAtIndex(ObjectAtIndex(buffer, RCTBridgeFieldMethodIDs), i))
ParamsAt(buffer, i) == ObjectAtIndex(ObjectAtIndex(buffer, RCTBridgeFieldParamss), i)

\* one round of the loop of _handleBuffer: -_handleRequestNumber: for index i
handleRequestNumber ==
  /\ fatal = "none"
  /\ handling # Idle
  /\ LET buffer == buffers[handling.buffer].value
         i == handling.i
     IN /\ i < NumRequests(buffer)
        /\ LET check == IF ObjectAtIndex(ObjectAtIndex(buffer, RCTBridgeFieldMethodIDs), i) = Raised
                        THEN "raised"
                        ELSE RequestCheck(ModuleIDAt(buffer, i), MethodIDAt(buffer, i),
                                          ParamsAt(buffer, i))
           IN IF check = "raised"
              THEN /\ fatal' = "NSRangeException"
                   /\ UNCHANGED <<shadowQueue, scheduled, logged, handling>>
              ELSE IF check = "ok"
              THEN /\ shadowQueue' = dispatch_async(shadowQueue,
                        RequestUnit(handling.buffer, i, ModuleIDAt(buffer, i),
                                    MethodIDAt(buffer, i), ParamsAt(buffer, i)))
                   /\ scheduled' = scheduled \cup {<<handling.buffer, i>>}
                   /\ handling' = [handling EXCEPT !.i = LoopAdvance(i, NumRequests(buffer), TRUE)]
                   /\ UNCHANGED <<logged, fatal>>
              ELSE /\ logged' = logged \cup {[buffer |-> handling.buffer, index |-> i, kind |-> check]}
                   /\ handling' = [handling EXCEPT !.i = LoopAdvance(i, NumRequests(buffer), FALSE)]
                   /\ UNCHANGED <<shadowQueue, scheduled, fatal>>
  /\ UNCHANGED <<frameVars, running, invoked, notified, liveBlocks, hostVars, lifeVars,
                 answered, buffers>>

\* the end of _handleBuffer: the batchDidComplete round is put on the queue
handleBufferEnd ==
  /\ fatal = "none"
  /\ handling # Idle
  /\ handling.i = NumRequests(buffers[handling.buffer].value)
  /\ LET units == CompletionUnits(handling.buffer, NumRequests(buffers[handling.buffer].value))
     IN shadowQueue' = IF units = <<>> THEN shadowQueue
                       ELSE dispatch_async(shadowQueue, units[1])
  /\ buffers' = [buffers EXCEPT ![handling.buffer].done = TRUE]
  /\ handling' = Idle
  /\ UNCHANGED <<frameVars, running, scheduled, invoked, notified, liveBlocks, hostVars,
                 lifeVars, answered, logged, fatal>>

(***************************************************************************)
(* The units of the shadow queue.                                          *)
(***************************************************************************)
\* [target respondsToSelector:] for the instance registered under a name
RespondsTo(moduleName, selector) ==
  selector \in ClassNamed(RCTBridgeModuleClasses[moduleName]).responds

\* a C scalar stored into an argument slot of the invocation
CInt(n) == [t |-> "int", v |-> n]

\* the first character of an encoded argument type
TypeChar(type) == IF type = "@?" THEN "@" ELSE type

\* lines 631-638: NSNull becomes nil, the value at a block index becomes a
\* response sender block
BlockOrParam(method, idx, param) ==
  IF param = Null THEN Nil
  ELSE IF idx \in method.blockArgumentIndexes
       THEN createResponseSenderBlock(IntegerValue(param))
       ELSE param

\* lines 634-635: [param integerValue] raises for a param that does not
\* respond to it (an array), and [blocks addObject:block] raises for the
\* nil block of the callback ID 0
MarshalRaises(method, params) ==
  \E idx \in 0..(Len(params) - 1) :
    /\ params[idx + 1] # Null
    /\ idx \in method.blockArgumentIndexes
    /\ \/ IsArray(params[idx + 1])
       \/ createResponseSenderBlock(IntegerValue(params[idx + 1])) = Nil

\* -intValue of a string: the decimal number it begins with, else 0; of
\* the strings of the model only "7" begins with one
IntValueOfString(s) == IF s = "7" THEN 7 ELSE 0

\* -intValue of a number or a string
IntValue(x) == IF x.t = "num" THEN x.v ELSE IntValueOfString(x.v)

\* [param respondsToSelector:@selector(intValue)] (line 666): numbers and
\* strings do; nil, arrays and blocks do not
RespondsToIntValue(p) == p.t \in {"num", "str"}

\* a slot left empty when no coercion applies
SetArgumentNone(param) == Nil

\* lines 692-694: shouldSet is still YES, the param itself is stored
SetArgument(param) == param

\* lines 640-694: what is stored at argument index idx + 2
ArgumentFor(method, idx, param) ==
  LET p == BlockOrParam(method, idx, param)
      argumentType == TypeChar(method.types[idx + 1])
  IN IF argumentType = "i" /\ RespondsToIntValue(p) THEN CInt(IntValue(p)) ELSE SetArgument(p)

Marshal(method, params) ==
  [k \in 1..Len(params) |-> ArgumentFor(method, k - 1, params[k])]

\* the callback IDs of the blocks made for one request
BlocksOf(method, params) ==
  {IntegerValue(params[idx + 1]) : idx \in {k \in 0..(Len(params) - 1) :
      BlockOrParam(method, k, params[k + 1]).t = "block"}}

\* no check of the validity inside the unit
UnitProceedsUnchecked == TRUE

\* lines 612-616: the unit goes on only while the bridge is valid
UnitProceeds == isValid

\* a queue that starts a block while another is executing
QueueFreeAlways == TRUE

\* line 373: _shadowQueue is DISPATCH_QUEUE_SERIAL, it starts a block only
\* when none is executing
QueueFree == running = NoUnit

\* a block that returns while the method is still executing
InvokingDetached(unit) == NoUnit

\* lines 697-698: [invocation invoke] is a synchronous call, the block of
\* the unit occupies the queue until the method has returned
Invoking(unit) == unit

\* a request unit starts: lines 609-698
RunRequest ==
  /\ fatal = "none"
  /\ QueueFree
  /\ shadowQueue # <<>>
  /\ Head(shadowQueue).kind = "request"
  /\ shadowQueue' = Tail(shadowQueue)
  /\ LET unit == Head(shadowQueue) IN
     IF ~UnitProceeds
     THEN UNCHANGED <<running, invoked, liveBlocks, fatal>>
     ELSE IF unit.moduleName \notin moduleInstances
     THEN /\ fatal' \in {"RCTAssert", "NSInvalidArgumentException"}
          /\ UNCHANGED <<running, invoked, liveBlocks>>
     ELSE IF MarshalRaises(unit.method, unit.params)
     THEN /\ fatal' = "NSInvalidArgumentException"
          /\ UNCHANGED <<running, invoked, liveBlocks>>
     ELSE /\ invoked' = Append(invoked, [buffer |-> unit.buffer, index |-> unit.index,
                                         target |-> unit.moduleName,
                                         selector |-> unit.method.selector,
                                         args |-> Marshal(unit.method, unit.params)])
          /\ liveBlocks' = liveBlocks \cup BlocksOf(unit.method, unit.params)
          /\ running' = Invoking(unit)
          /\ UNCHANGED fatal
  /\ UNCHANGED <<frameVars, scheduled, notified, hostVars, lifeVars, handling, answered,
                 buffers, logged>>

\* an invocation without the @try: the exception leaves the block
Uncaught(raised) == IF raised THEN "NSException" ELSE "none"

\* lines 697-703: @catch takes every exception of [invocation invoke], none
\* leaves the block
Caught(raised) == "none"

\* the invocation returns, or raises and the exception is logged (697-702)
FinishInvocation ==
  /\ fatal = "none"
  /\ running # NoUnit
  /\ running' = NoUnit
  /\ finished' = finished + 1
  /\ \E raised \in BOOLEAN :
       /\ logged' = IF raised
                    THEN logged \cup {[buffer |-> running.buffer, index |-> running.index,
                                       kind |-> "exception"]}
                    ELSE logged
       /\ fatal' = Caught(raised)
  /\ UNCHANGED <<staticVars, registering, waitedFor, construction, processVars, shadowQueue,
                 scheduled, invoked, notified, liveBlocks, hostVars, lifeVars, handling,
                 answered, buffers>>

\* the batchDidComplete unit: lines 566-572
RunBatchDidComplete ==
  /\ fatal = "none"
  /\ QueueFree
  /\ shadowQueue # <<>>
  /\ Head(shadowQueue).kind = "batchDidComplete"
  /\ shadowQueue' = Tail(shadowQueue)
  /\ notified' = Append(notified, [buffer |-> Head(shadowQueue).buffer,
                   targets |-> {m \in moduleInstances : RespondsTo(m, "batchDidComplete")},
                   beside |-> running])
  /\ UNCHANGED <<frameVars, running, scheduled, invoked, liveBlocks, hostVars, lifeVars,
                 handling, answered, buffers, logged, fatal>>

(***************************************************************************)
(* -invalidate, step by step.                                              *)
(***************************************************************************)
\* an executor kept by the bridge
ReleasedNever(executor) == executor

\* line 422: _javaScriptExecutor = nil
Released(executor) == "nil"

\* lines 419-422
InvalidateFlip(t) ==
  /\ fatal = "none"
  /\ invalidating[t] = "idle"
  /\ latestJSExecutor' = IF latestJSExecutor = javaScriptExecutor THEN "nil" ELSE latestJSExecutor
  /\ javaScriptExecutor' = Released(javaScriptExecutor)
  /\ invalidating' = [invalidating EXCEPT ![t] = "flipped"]
  /\ UNCHANGED <<frameVars, queueVars, hostVars, moduleInstances, tornDown, handling, answered,
                 buffers, logged, fatal>>

\* the identity of a unit of the queue
UnitID(unit) ==
  IF unit.kind = "request" THEN <<"request", unit.buffer, unit.index>>
  ELSE IF unit.kind = "batchDidComplete" THEN <<"batchDidComplete", unit.buffer>>
  ELSE <<unit.kind, unit.thread>>

\* the units put on the queue and not yet finished
Pending ==
  {UnitID(shadowQueue[k]) : k \in DOMAIN shadowQueue} \cup
  (IF running = NoUnit THEN {} ELSE {UnitID(running)})

\* a barrier that overtakes the blocks already waiting
dispatch_syncFirst(queue, unit) == <<unit>> \o queue

\* lines 424-427: dispatch_sync puts its block behind every block already
\* on the serial queue
dispatch_sync(queue, unit) == Append(queue, unit)

\* dispatch_sync puts its empty block on the queue and waits for it
InvalidateSync(t) ==
  /\ fatal = "none"
  /\ invalidating[t] = "flipped"
  /\ waitedFor' = [waitedFor EXCEPT ![t] = Pending]
  /\ shadowQueue' = dispatch_sync(shadowQueue, [kind |-> "barrier", thread |-> t])
  /\ invalidating' = [invalidating EXCEPT ![t] = "waiting"]
  /\ UNCHANGED <<staticVars, registering, finished, construction, processVars, running,
                 scheduled, invoked, notified, liveBlocks, hostVars,
                 latestJSExecutor, javaScriptExecutor, moduleInstances, tornDown, handling,
                 answered, buffers, logged, fatal>>

\* the empty block runs and dispatch_sync returns
RunBarrier ==
  /\ fatal = "none"
  /\ QueueFree
  /\ shadowQueue # <<>>
  /\ Head(shadowQueue).kind = "barrier"
  /\ shadowQueue' = Tail(shadowQueue)
  /\ invalidating' = [invalidating EXCEPT ![Head(shadowQueue).thread] = "teardown"]
  /\ UNCHANGED <<frameVars, running, scheduled, invoked, notified, liveBlocks, hostVars,
                 latestJSExecutor, javaScriptExecutor, moduleInstances, tornDown, handling,
                 answered, buffers, logged, fatal>>

\* lines 429-433
InvalidateTeardown(t) ==
  /\ fatal = "none"
  /\ invalidating[t] = "teardown"
  /\ tornDown' = [m \in DOMAIN tornDown |->
                    IF m \in moduleInstances /\ RespondsTo(m, "invalidate")
                    THEN tornDown[m] + 1 ELSE tornDown[m]]
  /\ invalidating' = [invalidating EXCEPT ![t] = "release"]
  /\ UNCHANGED <<frameVars, queueVars, hostVars, latestJSExecutor, javaScriptExecutor,
                 moduleInstances, handling, answered, buffers, logged, fatal>>

\* line 434
InvalidateRelease(t) ==
  /\ fatal = "none"
  /\ invalidating[t] = "release"
  /\ moduleInstances' = {}
  /\ invalidating' = [invalidating EXCEPT ![t] = "done"]
  /\ UNCHANGED <<frameVars, queueVars, hostVars, latestJSExecutor, javaScriptExecutor,
                 tornDown, handling, answered, buffers, logged, fatal>>

(***************************************************************************)
(* -registerRootView: (lines 745-753), on the thread of its caller.        *)
(***************************************************************************)
\* the loop goes to its next target, or ends
RegisterNext(todo) ==
  IF todo = {} THEN {[pc |-> "done", target |-> "", todo |-> {}]}
  ELSE {[pc |-> "calling", target |-> m, todo |-> todo \ {m}] : m \in todo}

\* the caller enters the loop: the first target that responds is called
RegisterRootViewBegin ==
  /\ fatal = "none"
  /\ registering.pc = "idle"
  /\ registering' \in RegisterNext({m \in moduleInstances : RespondsTo(m, "registerRootView")})
  /\ UNCHANGED <<staticVars, waitedFor, finished, construction, processVars, queueVars, hostVars,
                 lifeVars, handling, answered, buffers, logged, fatal>>

\* [target registerRootView:rootView] returns to the loop
RegisterRootViewReturn ==
  /\ fatal = "none"
  /\ registering.pc = "calling"
  /\ registering' \in RegisterNext(registering.todo)
  /\ UNCHANGED <<staticVars, waitedFor, finished, construction, processVars, queueVars, hostVars,
                 lifeVars, handling, answered, buffers, logged, fatal>>

\* a static table that every caller builds anew
BuiltAgain(table, fresh) == fresh

\* dispatch_once (lines 92, 168, 233, 296): the block that builds a static
\* table runs once per process, later callers get the table built first
BuiltOnce(table, fresh) == table

\* another bridge is constructed in the process: line 371 stores its
\* executor in the static _latestJSExecutor, lines 388-389 call
\* RCTRemoteModulesConfig() and RCTLocalModulesConfig() again
ConstructOther ==
  /\ fatal = "none"
  /\ latestJSExecutor # "other"
  /\ latestJSExecutor' = "other"
  /\ \E keyOrder \in Orders(DOMAIN RCTExportedMethodsByModule) :
       \E classOrder \in Orders({RCTBridgeModuleClasses[m] : m \in DOMAIN RCTBridgeModuleClasses}) :
         LET remote == RCTRemoteModulesConfig(keyOrder)
             local == RCTLocalModulesConfig(classOrder)
         IN /\ RCTRemoteModulesByID' = BuiltOnce(RCTRemoteModulesByID, remote.byID)
            /\ remoteModules' = BuiltOnce(remoteModules, remote.remoteModules)
            /\ RCTLocalModuleIDs' = BuiltOnce(RCTLocalModuleIDs, local.moduleIDs)
            /\ RCTLocalMethodIDs' = BuiltOnce(RCTLocalMethodIDs, local.methodIDs)
            /\ localModules' = BuiltOnce(localModules, local.localModules)
  /\ UNCHANGED <<registering, waitedFor, finished, construction, processVars, queueVars,
                 hostVars, javaScriptExecutor, moduleInstances, invalidating, tornDown,
                 handling, answered, buffers, logged, fatal>>

(***************************************************************************)
(* What the script side answers with.                                      *)
(***************************************************************************)
Request(moduleID, methodID, params) ==
  [moduleID |-> moduleID, methodID |-> methodID, params |-> params]

\* a flushed queue of the five fields, for the requests rs
FlushedQueue(rs) ==
  Arr(<<Arr([k \in 1..Len(rs) |-> rs[k].moduleID]),
        Arr([k \in 1..Len(rs) |-> rs[k].methodID]),
        Arr([k \in 1..Len(rs) |-> rs[k].params]),
        Arr(<<>>), Arr(<<>>)>>)

\* the same with the flush date as a sixth field
DatedQueue(rs) == Arr(FlushedQueue(rs).v \o <<Num(0)>>)

\* the buffers the script side answers with while the bridge is also being
\* called and invalidated
BufferInputs == {
  Nil,
  DatedQueue(<<Request(Num(0), Num(0), Arr(<<>>))>>),
  FlushedQueue(<<>>),
  FlushedQueue(<<Request(Num(99), Num(0), Arr(<<>>)), Request(Num(0), Num(0), Arr(<<>>))>>),
  FlushedQueue(<<Request(Num(0), Num(1), Arr(<<Num(5), Num(42)>>))>>),
  FlushedQueue(<<Request(Num(1), Num(1), Arr(<<Num(5), Num(42)>>)),
                 Request(Num(1), Num(0), Arr(<<>>))>>)
}

\* the threads that call -invalidate
Callers == {"t1"}

Next ==
  \/ \E n \in NameInputs, a \in ArgsInputs : enqueueJSCall(n, a)
  \/ \E c \in liveBlocks, a \in ArgsInputs : CallBlock(c, a)
  \/ JSCallback(BufferInputs)
  \/ handleRequestNumber
  \/ handleBufferEnd
  \/ RunRequest
  \/ FinishInvocation
  \/ RunBatchDidComplete
  \/ RunBarrier
  \/ \E t \in Callers : InvalidateFlip(t)
  \/ \E t \in Callers : InvalidateSync(t)
  \/ \E t \in Callers : InvalidateTeardown(t)
  \/ \E t \in Callers : InvalidateRelease(t)

Spec == Init /\ [][Next]_vars

(***************************************************************************)
(* Decoding alone: one call of the host, answered by any buffer of a wide  *)
(* set, on a bridge that is not invalidated.                               *)
(***************************************************************************)
\* requests of one flushed queue
MaxRequests == 2

ModuleIDInputs == {Num(0), Num(1), Num(99)}
MethodIDInputs == {Num(-1), Num(0), Num(1)}
ParamsInputs == {Arr(<<>>), Arr(<<Num(5)>>), Arr(<<Num(5), Num(42)>>)}

SeqsUpTo(S, n) == UNION {[1..k -> S] : k \in 0..n}

\* a field of a buffer: an array of up to MaxRequests entries, or no array
FieldInputs(S) == {Arr(q) : q \in SeqsUpTo(S, MaxRequests)} \cup {Num(7)}

\* what follows the first three fields: nothing, one array, the two
\* response arrays, or the two response arrays and the flush date
TailInputs == {<<>>, <<Arr(<<>>)>>, <<Arr(<<>>), Arr(<<>>)>>, <<Arr(<<>>), Arr(<<>>), Num(0)>>}

WideBufferInputs ==
  {Nil, Null, Str("queue")} \cup
  {Arr(<<f0, f1, f2>> \o tail) :
     f0 \in FieldInputs(ModuleIDInputs), f1 \in FieldInputs(MethodIDInputs),
     f2 \in FieldInputs(ParamsInputs), tail \in TailInputs}

InitDecode ==
  \E keyOrder \in Orders(DOMAIN RCTExportedMethodsByModule) :
    InitWith(keyOrder, <<"RCTAlpha", "RCTBeta">>)

NextDecode ==
  \/ enqueueJSCall(<<"Alpha", Dot, "emit">>, <<>>)
  \/ JSCallback(WideBufferInputs)
  \/ handleRequestNumber
  \/ handleBufferEnd
  \/ RunRequest
  \/ FinishInvocation
  \/ RunBatchDidComplete

SpecDecode == InitDecode /\ [][NextDecode]_vars

(***************************************************************************)
(* The life of a bridge: batches, -registerRootView: and -invalidate from  *)
(* two threads, and a second bridge of the process.                        *)
(***************************************************************************)
LifeBufferInputs == {
  Nil,
  FlushedQueue(<<>>),
  FlushedQueue(<<Request(Num(0), Num(0), Arr(<<>>)), Request(Num(1), Num(0), Arr(<<>>))>>),
  FlushedQueue(<<Request(Num(0), Num(0), Arr(<<>>)), Request(Num(0), Num(0), Arr(<<>>))>>),
  FlushedQueue(<<Request(Num(0), Num(1), Arr(<<Num(5), Num(42)>>))>>)
}

NextLife ==
  \/ enqueueJSCall(<<"Alpha", Dot, "emit">>, <<>>)
  \/ \E c \in liveBlocks : CallBlock(c, <<>>)
  \/ JSCallback(LifeBufferInputs)
  \/ handleRequestNumber
  \/ handleBufferEnd
  \/ RunRequest
  \/ FinishInvocation
  \/ RunBatchDidComplete
  \/ RunBarrier
  \/ \E t \in Threads : InvalidateFlip(t)
  \/ \E t \in Threads : InvalidateSync(t)
  \/ \E t \in Threads : InvalidateTeardown(t)
  \/ \E t \in Threads : InvalidateRelease(t)
  \/ RegisterRootViewBegin
  \/ RegisterRootViewReturn
  \/ ConstructOther

SpecLife == InitDecode /\ [][NextLife]_vars

(***************************************************************************)
(* Marshaling: one buffer of one or two requests whose params are of every *)
(* kind the codec hands over, on a bridge that is not invalidated.         *)
(***************************************************************************)
\* what a request carries where the method takes an int, an object or a block
ScalarInputs == {Num(5), Str("7"), Str("ok"), Arr(<<>>), Null}
CallbackIDInputs == {Num(42), Num(0), Null, Arr(<<>>)}

MarshalRequestInputs ==
  {Request(moduleID, Num(1), Arr(<<x, c>>)) :
     moduleID \in {Num(0), Num(1)}, x \in ScalarInputs, c \in CallbackIDInputs} \cup
  {Request(moduleID, Num(0), Arr(<<x>>)) : moduleID \in {Num(0), Num(1)}, x \in ScalarInputs} \cup
  {Request(moduleID, Num(0), params) :
     moduleID \in {Num(0), Num(1), Num(99)}, params \in {Dict, Arr(<<>>)}}

MarshalBufferInputs ==
  {FlushedQueue(<<r>>) : r \in MarshalRequestInputs} \cup
  {FlushedQueue(<<r, Request(Num(0), Num(1), Arr(<<Num(5), Num(42)>>))>>) :
     r \in MarshalRequestInputs}

NextMarshal ==
  \/ enqueueJSCall(<<"Alpha", Dot, "emit">>, <<>>)
  \/ \E c \in liveBlocks : CallBlock(c, <<>>)
  \/ JSCallback(MarshalBufferInputs)
  \/ handleRequestNumber
  \/ handleBufferEnd
  \/ RunRequest
  \/ FinishInvocation
  \/ RunBatchDidComplete

SpecMarshal == InitDecode /\ [][NextMarshal]_vars

\* the same under fair scheduling: the callback runs _handleBuffer: to its
\* end, the serial queue starts the block at its head when none is
\* executing, and a method that was invoked returns
SpecMarshalFair ==
  /\ SpecMarshal
  /\ WF_vars(handleRequestNumber)
  /\ WF_vars(handleBufferEnd)
  /\ WF_vars(RunRequest)
  /\ WF_vars(FinishInvocation)
  /\ WF_vars(RunBatchDidComplete)

(***************************************************************************)
(* ReactIOSEventEmitter.receiveTouches, the script-side entry point the    *)
(* host calls with the touches of the screen.  A JS array is a sequence,   *)
(* its index i is the place i + 1 of the sequence.                         *)
(***************************************************************************)
\* touches of one call
MaxTouches == 3

Undefined == [t |-> "undefined"]

topLevelTypes == {"topTouchStart", "topTouchMove", "topTouchEnd", "topTouchCancel"}

\* the tags of the views the touches report, JS null and undefined among them
TargetInputs == {Null, Undefined, Num(0), Num(1)}

\* ReactIOSTagHandles.tagsStartAt, as the deployment sets it
TagsStartAtInputs == {1, 2}

\* the deserialized touch objects: the touch at place k has the identifier k
TouchesInputs ==
  UNION {{[k \in 1..n |-> [identifier |-> k, target |-> targets[k]]] :
            targets \in [1..n -> TargetInputs]} : n \in 1..MaxTouches}

\* the indices the host names: each an index of touches, none named twice
ChangedIndicesInputs(touches) ==
  {indices \in SeqsUpTo(0..(Len(touches) - 1), Len(touches)) :
     \A i, j \in 1..Len(indices) : indices[i] = indices[j] => i = j}

\* lines 36-42
RECURSIVE touchSubsequenceFrom(_, _, _, _)
touchSubsequenceFrom(touches, indices, i, ret) ==
  IF ~(i < Len(indices)) THEN ret
  ELSE touchSubsequenceFrom(touches, indices, i + 1, Append(ret, touches[indices[i + 1] + 1]))

touchSubsequence(touches, indices) == touchSubsequenceFrom(touches, indices, 0, <<>>)

\* lines 57-61: the touch at each index is pushed and its place set to null
RECURSIVE RipOut(_, _, _, _)
RipOut(touches, indices, i, rippedOut) ==
  IF ~(i < Len(indices)) THEN [touches |-> touches, rippedOut |-> rippedOut]
  ELSE LET index == indices[i + 1]
       IN RipOut([touches EXCEPT ![index + 1] = Null], indices, i + 1,
                 Append(rippedOut, touches[index + 1]))

\* lines 62-69: the places that are not null are moved to the front, and
\* the array is cut behind them
RECURSIVE FillFrom(_, _, _)
FillFrom(touches, j, fillAt) ==
  IF ~(j < Len(touches)) THEN SubSeq(touches, 1, fillAt)
  ELSE LET cur == touches[j + 1]
       IN IF cur # Null
          THEN FillFrom([touches EXCEPT ![fillAt + 1] = cur], j + 1, fillAt + 1)
          ELSE FillFrom(touches, j + 1, fillAt)

\* lines 55-71: what is returned, and what the array given has become
removeTouchesAtIndices(touches, indices) ==
  LET ripped == RipOut(touches, indices, 0, <<>>)
  IN [touches |-> FillFrom(ripped.touches, 0, 0), rippedOut |-> ripped.rippedOut]

\* only the end of a touch takes it out of touches
RemovesChangedAtEnd(eventTopLevelType) == eventTopLevelType = "topTouchEnd"

\* lines 156-157
RemovesChanged(eventTopLevelType) ==
  eventTopLevelType = "topTouchEnd" \/ eventTopLevelType = "topTouchCancel"

\* lines 155-159: receiveTouches is called and comes to its loop
ReceiveTouches(eventTopLevelType, touches, changedIndices, tagsStartAt) ==
  /\ fatal = "none"
  /\ emitter.pc = "idle"
  /\ LET removed == removeTouchesAtIndices(touches, changedIndices)
     IN emitter' = [pc |-> "loop", eventTopLevelType |-> eventTopLevelType,
                    given |-> touches, changedIndices |-> changedIndices,
                    tagsStartAt |-> tagsStartAt,
                    changedTouches |-> IF RemovesChanged(eventTopLevelType)
                                       THEN removed.rippedOut
                                       ELSE touchSubsequence(touches, changedIndices),
                    touches |-> IF RemovesChanged(eventTopLevelType)
                                THEN removed.touches ELSE touches,
                    jj |-> 0, dispatched |-> <<>>]
  /\ UNCHANGED <<staticVars, registering, waitedFor, finished, construction, image, script,
                 invocations, cacheCalls, queueVars, hostVars, lifeVars, handling, answered,
                 buffers, logged, fatal>>

\* NodeHandle.getRootNodeID (line 187)
getRootNodeID(target) == [rootNodeIDOf |-> target]

\* a loop that ends at the first touch it does not dispatch
jjAfterBreak(jj, length) == length

\* line 184: continue goes on with the next touch
jjAfterContinue(jj, length) == jj + 1

\* lines 104-112: the event handed to handleTopLevel
receiveRootNodeIDEvent(rootNodeID, topLevelType, nativeEventParam) ==
  [topLevelType |-> topLevelType, rootNodeID |-> rootNodeID, nativeEvent |-> nativeEventParam]

\* lines 161-194: one round of the loop
ReceiveTouchesLoop ==
  /\ fatal = "none"
  /\ emitter.pc = "loop"
  /\ emitter.jj < Len(emitter.changedTouches)
  /\ LET touch == emitter.changedTouches[emitter.jj + 1]
         nativeEvent == [identifier |-> touch.identifier, target |-> touch.target,
                         changedTouches |-> emitter.changedTouches,
                         touches |-> emitter.touches]
         target == nativeEvent.target
     IN IF target # Null /\ target # Undefined /\ target.v < emitter.tagsStartAt
        THEN emitter' = [emitter EXCEPT
                           !.jj = jjAfterContinue(emitter.jj, Len(emitter.changedTouches))]
        ELSE LET rootNodeID == IF target # Null /\ target # Undefined
                               THEN getRootNodeID(target) ELSE Null
             IN emitter' = [emitter EXCEPT
                  !.jj = @ + 1,
                  !.dispatched = Append(@, receiveRootNodeIDEvent(rootNodeID,
                                              emitter.eventTopLevelType, nativeEvent))]
  /\ UNCHANGED <<staticVars, registering, waitedFor, finished, construction, image, script,
                 invocations, cacheCalls, queueVars, hostVars, lifeVars, handling, answered,
                 buffers, logged, fatal>>

\* the loop ends and receiveTouches returns
ReceiveTouchesReturn ==
  /\ fatal = "none"
  /\ emitter.pc = "loop"
  /\ ~(emitter.jj < Len(emitter.changedTouches))
  /\ emitter' = [emitter EXCEPT !.pc = "returned"]
  /\ UNCHANGED <<staticVars, registering, waitedFor, finished, construction, image, script,
                 invocations, cacheCalls, queueVars, hostVars, lifeVars, handling, answered,
                 buffers, logged, fatal>>

NextTouches ==
  \/ /\ emitter.pc = "idle"
     /\ \E eventTopLevelType \in topLevelTypes, touches \in TouchesInputs,
           tagsStartAt \in TagsStartAtInputs :
          \E changedIndices \in ChangedIndicesInputs(touches) :
            ReceiveTouches(eventTopLevelType, touches, changedIndices, tagsStartAt)
  \/ ReceiveTouchesLoop
  \/ ReceiveTouchesReturn

SpecTouches == InitDecode /\ [][NextTouches]_vars

(***************************************************************************)
(* -enqueueApplicationScript:url:onComplete: (lines 463-480): the executor *)
(* loads the script and runs the block given to it; the block asks for the *)
(* flushed queue, whose callback handles the buffer and calls onComplete.  *)
(***************************************************************************)
\* what the executor answers the request of the flushed queue with
ScriptBufferInputs == {
  Nil,
  FlushedQueue(<<>>),
  FlushedQueue(<<Request(Num(0), Num(0), Arr(<<>>)), Request(Num(1), Num(0), Arr(<<>>))>>)
}

\* a message to _javaScriptExecutor reaches an executor unless the ivar is
\* nil (lines 466 and 472)
ExecutorReached(executor) == executor # "nil"

\* lines 465-466: the script is handed to the executor; a message to nil
\* does nothing and the block is dropped with it
enqueueApplicationScript ==
  /\ fatal = "none"
  /\ script.pc = "idle"
  /\ script' = [script EXCEPT !.pc = IF ExecutorReached(javaScriptExecutor)
                                      THEN "loading" ELSE "dropped"]
  /\ UNCHANGED <<staticVars, registering, waitedFor, finished, construction, image,
                 invocations, cacheCalls, emitter, queueVars, hostVars, lifeVars, handling,
                 answered, buffers, logged, fatal>>

\* lines 466-478: the executor runs the block with the outcome of the load;
\* with an error onComplete gets it, without one the flushed queue is asked
\* of _javaScriptExecutor
ScriptLoaded(scriptLoadError) ==
  /\ fatal = "none"
  /\ script.pc = "loading"
  /\ script' =
       IF scriptLoadError
       THEN [script EXCEPT !.pc = "done", !.completions = Append(@, "scriptLoadError")]
       ELSE IF ExecutorReached(javaScriptExecutor)
       THEN [script EXCEPT !.pc = "flushing", !.flushedQueueRequests = @ + 1]
       ELSE [script EXCEPT !.pc = "dropped"]
  /\ UNCHANGED <<staticVars, registering, waitedFor, finished, construction, image,
                 invocations, cacheCalls, emitter, queueVars, hostVars, lifeVars, handling,
                 answered, buffers, logged, fatal>>

\* lines 475-476: the executor runs the callback with the flushed queue,
\* and [self _handleBuffer:objcValue] checks its shape and enters its loop
ScriptFlushed(pool) ==
  /\ fatal = "none"
  /\ script.pc = "flushing"
  /\ handling = Idle
  /\ \E buffer \in pool, error \in {"none", "error"} :
       LET shape == BufferShape(buffer)
           id == Len(buffers) + 1
       IN /\ buffers' = Append(buffers, [value |-> buffer, source |-> 0, valid |-> isValid,
                                         shape |-> shape, done |-> shape # "ok"])
          /\ logged' = IF shape \in {"ok", "empty"} THEN logged
                       ELSE logged \cup {[buffer |-> id, index |-> -1, kind |-> shape]}
          /\ handling' = IF shape = "ok" THEN [buffer |-> id, i |-> 0] ELSE Idle
          /\ script' = [script EXCEPT !.pc = error, !.buffer = id]
  /\ UNCHANGED <<staticVars, registering, waitedFor, finished, construction, image,
                 invocations, cacheCalls, emitter, queueVars, hostVars, lifeVars, answered,
                 fatal>>

\* line 477: _handleBuffer: has returned and onComplete(error) is called
ScriptComplete ==
  /\ fatal = "none"
  /\ script.pc \in {"none", "error"}
  /\ buffers[script.buffer].done
  /\ script' = [script EXCEPT !.pc = "done", !.completions = Append(@, script.pc)]
  /\ UNCHANGED <<staticVars, registering, waitedFor, finished, construction, image,
                 invocations, cacheCalls, emitter, queueVars, hostVars, lifeVars, handling,
                 answered, buffers, logged, fatal>>

NextScript ==
  \/ enqueueApplicationScript
  \/ \E scriptLoadError \in BOOLEAN : ScriptLoaded(scriptLoadError)
  \/ ScriptFlushed(ScriptBufferInputs)
  \/ ScriptComplete
  \/ handleRequestNumber
  \/ handleBufferEnd
  \/ RunRequest
  \/ FinishInvocation
  \/ RunBatchDidComplete
  \/ RunBarrier
  \/ \E t \in Callers : InvalidateFlip(t)
  \/ \E t \in Callers : InvalidateSync(t)
  \/ \E t \in Callers : InvalidateTeardown(t)
  \/ \E t \in Callers : InvalidateRelease(t)

\* the executor runs every block and callback it was given, and the
\* callback runs _handleBuffer: to its end
SpecScript ==
  /\ InitDecode
  /\ [][NextScript]_vars
  /\ WF_vars(\E scriptLoadError \in BOOLEAN : ScriptLoaded(scriptLoadError))
  /\ WF_vars(ScriptFlushed(ScriptBufferInputs))
  /\ WF_vars(ScriptComplete)
  /\ WF_vars(handleRequestNumber)
  /\ WF_vars(handleBufferEnd)

(***************************************************************************)
(* The cascade: every envelope of the host, of a call or of a response     *)
(* sender block, is answered with a flushed queue whose requests may hand  *)
(* out further blocks.                                                     *)
(***************************************************************************)
\* the envelopes of one behaviour
MaxEnvelopes == MaxCalls + MaxBlockCalls

CascadeBufferInputs == {
  Nil,
  FlushedQueue(<<>>),
  FlushedQueue(<<Request(Num(0), Num(1), Arr(<<Num(5), Num(42)>>))>>),
  FlushedQueue(<<Request(Num(1), Num(1), Arr(<<Num(5), Num(42)>>)),
                 Request(Num(99), Num(0), Arr(<<>>))>>)
}

NextCascade ==
  \/ enqueueJSCall(<<"Alpha", Dot, "emit">>, <<>>)
  \/ \E c \in liveBlocks : CallBlock(c, <<>>)
  \/ JSCallbackUpTo(CascadeBufferInputs, MaxEnvelopes)
  \/ handleRequestNumber
  \/ handleBufferEnd
  \/ RunRequest
  \/ FinishInvocation
  \/ RunBatchDidComplete

\* the executor runs the callback of every call it was given, and the
\* callback runs _handleBuffer: to its end
SpecCascade ==
  /\ InitDecode
  /\ [][NextCascade]_vars
  /\ WF_vars(JSCallbackUpTo(CascadeBufferInputs, MaxEnvelopes))
  /\ WF_vars(handleRequestNumber)
  /\ WF_vars(handleBufferEnd)

(***************************************************************************)
(* Construction, step by step: -initWithJavaScriptExecutor: run by the     *)
(* creator of the first bridge of a process, for any image of the process. *)
(***************************************************************************)
\* entries of one export section
MaxEntries == 3

\* -initWithJavaScriptExecutor: has not begun
NotConstructed == [pc |-> "start", injections |-> 0, acknowledged |-> FALSE, timedOut |-> FALSE]

\* lines 176-184: a class with a superclass that conforms to RCTBridgeModule
IsModuleClass(cls) == cls.superclass /\ cls.conforms

\* a check that only sees a class listed twice
DuplicateRegistrationByClass(classes) ==
  \E i, j \in 1..Len(classes) :
    /\ i < j /\ IsModuleClass(classes[i]) /\ IsModuleClass(classes[j])
    /\ classes[i].name = classes[j].name

\* lines 187-192: existingClass is not Nil for a class whose module name an
\* earlier class of the list has registered
DuplicateRegistration(classes) ==
  \E i, j \in 1..Len(classes) :
    /\ i < j /\ IsModuleClass(classes[i]) /\ IsModuleClass(classes[j])
    /\ ModuleNameOf(classes[i]) = ModuleNameOf(classes[j])

\* RCTCAssert: a failed assertion ends the registry build
RCTCAssert(condition) == IF condition THEN "none" ELSE "RCTCAssert"

\* the class lists and the export sections a process may hold
ClassListInputs ==
  {ClassList, Append(ClassList, RCTAlphaToo), <<ClassList[1], RCTAlphaToo>> \o Tail(ClassList)}

EntryInputs == {
  [plusMinus |-> "-", className |-> "RCTAlpha", selector |-> <<"ping">>, js |-> ""],
  [plusMinus |-> "-", className |-> "RCTAlpha", selector |-> <<"fetch", "callback">>, js |-> "get"],
  [plusMinus |-> "-", className |-> "RCTBeta", selector |-> <<"log">>, js |-> ""],
  [plusMinus |-> "-", className |-> "RCTBeta", selector |-> <<"log", "level">>, js |-> ""],
  [plusMinus |-> "-", className |-> "RCTGone", selector |-> <<"ping">>, js |-> ""],
  [plusMinus |-> "-", className |-> "RCTPlain", selector |-> <<"draw">>, js |-> ""]
}

\* a section holds one entry per exported method
SectionInputs ==
  {ExportSection} \cup
  {q \in SeqsUpTo(EntryInputs, MaxEntries) : \A i, j \in DOMAIN q : i # j => q[i] # q[j]}

InitConstruct ==
  /\ image \in [classes : ClassListInputs, section : SectionInputs]
  /\ construction = NotConstructed
  /\ RCTRemoteModulesByID = EmptyDict
  /\ remoteModules = EmptyDict
  /\ RCTLocalModuleIDs = EmptyDict
  /\ RCTLocalMethodIDs = EmptyDict
  /\ localModules = EmptyDict
  /\ latestJSExecutor = "nil"
  /\ javaScriptExecutor = "nil"
  /\ moduleInstances = {}
  /\ tornDown = EmptyDict
  /\ shadowQueue = <<>>
  /\ running = NoUnit
  /\ handling = Idle
  /\ invalidating = [t \in Threads |-> "idle"]
  /\ sent = <<>>
  /\ answered = {}
  /\ buffers = <<>>
  /\ scheduled = {}
  /\ invoked = <<>>
  /\ logged = {}
  /\ notified = <<>>
  /\ liveBlocks = {}
  /\ calls = <<>>
  /\ blockCalls = <<>>
  /\ fatal = "none"
  /\ registering = NotRegistering
  /\ waitedFor = [t \in Threads |-> {}]
  /\ finished = 0
  /\ invocations = NoDictionary
  /\ cacheCalls = [t \in Threads |-> NoCacheCall]
  /\ emitter = NoTouches
  /\ script = NoScript

\* lines 369-373
ConstructBegin ==
  /\ fatal = "none"
  /\ construction.pc = "start"
  /\ javaScriptExecutor' = "executor"
  /\ latestJSExecutor' = "executor"
  /\ construction' = [construction EXCEPT !.pc = "modules"]
  /\ UNCHANGED <<staticVars, registering, waitedFor, finished, processVars, queueVars, hostVars,
                 moduleInstances, invalidating, tornDown, handling, answered, buffers, logged,
                 fatal>>

\* lines 375-385: the first call of RCTBridgeModuleClasses() builds the
\* dictionary of the module classes, then one instance is made per name
InstantiateModules ==
  /\ fatal = "none"
  /\ construction.pc = "modules"
  /\ LET raised == RCTCAssert(~DuplicateRegistration(image.classes))
         modules == BridgeModuleClassesFrom(image.classes, 1, EmptyDict)
     IN IF raised # "none"
        THEN /\ fatal' = raised
             /\ UNCHANGED <<moduleInstances, tornDown, construction>>
        ELSE /\ moduleInstances' = DOMAIN modules
             /\ tornDown' = [m \in DOMAIN modules |-> 0]
             /\ construction' = [construction EXCEPT !.pc = "inject"]
             /\ UNCHANGED fatal
  /\ UNCHANGED <<staticVars, registering, waitedFor, finished, processVars, queueVars, hostVars,
                 latestJSExecutor, javaScriptExecutor, invalidating, handling, answered,
                 buffers, logged>>

\* lines 387-395: both configs are built (their first call) and handed to
\* the executor under the name __fbBatchedBridgeConfig
InjectConfig ==
  /\ fatal = "none"
  /\ construction.pc = "inject"
  /\ LET methodsByModule == ExportedMethodsFrom(image.section, 1, EmptyDict)
         modules == BridgeModuleClassesFrom(image.classes, 1, EmptyDict)
     IN \E keyOrder \in Orders(DOMAIN methodsByModule) :
          \E classOrder \in Orders({modules[m] : m \in DOMAIN modules}) :
            LET remote == RemoteModulesOver(methodsByModule, keyOrder, 1,
                            [remoteModules |-> EmptyDict, byID |-> EmptyDict])
                local == RCTLocalModulesConfig(classOrder)
            IN /\ RCTRemoteModulesByID' = remote.byID
               /\ remoteModules' = remote.remoteModules
               /\ RCTLocalModuleIDs' = local.moduleIDs
               /\ RCTLocalMethodIDs' = local.methodIDs
               /\ localModules' = local.localModules
  /\ construction' = [construction EXCEPT !.pc = "wait", !.injections = @ + 1]
  /\ UNCHANGED <<registering, waitedFor, finished, processVars, queueVars, hostVars, lifeVars,
                 handling, answered, buffers, logged, fatal>>

\* the executor runs the callback of injectJSONText:, which signals the
\* semaphore (lines 393-395)
Acknowledge ==
  /\ fatal = "none"
  /\ construction.injections > 0
  /\ ~construction.acknowledged
  /\ construction' = [construction EXCEPT !.acknowledged = TRUE]
  /\ UNCHANGED <<staticVars, registering, waitedFor, finished, processVars, queueVars, hostVars,
                 lifeVars, handling, answered, buffers, logged, fatal>>

\* a wait that returns at once
WaitOverAtOnce == TRUE

\* line 397: dispatch_semaphore_wait returns 0 once the semaphore is signalled
WaitOver == construction.acknowledged

\* the wait ends with the acknowledgement and the initializer returns
WaitReturn ==
  /\ fatal = "none"
  /\ construction.pc = "wait"
  /\ WaitOver
  /\ construction' = [construction EXCEPT !.pc = "returned"]
  /\ UNCHANGED <<staticVars, registering, waitedFor, finished, processVars, queueVars, hostVars,
                 lifeVars, handling, answered, buffers, logged, fatal>>

\* a timeout that ends the construction
TimeoutFatal == "ConfigInjectionTimeout"

\* lines 397-399: the timeout is reported by RCTLogMustFix and nothing else
TimeoutOutcome == "none"

\* the second passes without the acknowledgement: the wait returns non-zero
WaitTimeout ==
  /\ fatal = "none"
  /\ construction.pc = "wait"
  /\ ~construction.acknowledged
  /\ logged' = logged \cup {[buffer |-> 0, index |-> -1, kind |-> "injectTimeout"]}
  /\ fatal' = TimeoutOutcome
  /\ construction' = [construction EXCEPT !.timedOut = TRUE,
                        !.pc = IF TimeoutOutcome = "none" THEN "returned" ELSE "wait"]
  /\ UNCHANGED <<staticVars, registering, waitedFor, finished, processVars, queueVars, hostVars,
                 lifeVars, handling, answered, buffers>>

\* the creator calls the bridge the initializer returned
CreatorCall(moduleDotMethod, args) ==
  /\ construction.pc = "returned"
  /\ enqueueJSCall(moduleDotMethod, args)

NextConstruct ==
  \/ ConstructBegin
  \/ InstantiateModules
  \/ InjectConfig
  \/ Acknowledge
  \/ WaitReturn
  \/ WaitTimeout
  \/ \E n \in NameInputs, a \in ArgsInputs : CreatorCall(n, a)

SpecConstruct == InitConstruct /\ [][NextConstruct]_vars

(***************************************************************************)
(* +invocationForAdditionalArguments: (lines 725-743), called from any     *)
(* thread.  An NSInvocation is named by the order of its creation; the     *)
(* dictionary is an NSMutableDictionary, which is not thread-safe.         *)
(***************************************************************************)
\* calls of one thread
MaxCacheCalls == 2

ArgCountInputs == {0, 1}

\* lines 727-731: dispatch_once makes the dictionary, once and atomically
CacheCallBegin(t, argCount) ==
  /\ fatal = "none"
  /\ cacheCalls[t].pc = "idle"
  /\ Len(cacheCalls[t].returned) < MaxCacheCalls
  /\ invocations' = [invocations EXCEPT !.built = TRUE]
  /\ cacheCalls' = [cacheCalls EXCEPT ![t].pc = "lookup", ![t].argCount = argCount,
                                      ![t].invocation = 0]
  /\ UNCHANGED <<staticVars, registering, waitedFor, finished, construction, image, script, emitter,
                 queueVars, hostVars, lifeVars, handling, answered, buffers, logged, fatal>>

\* what invocations[key] may give: the entry, nil (0) when there is none;
\* while another thread is writing the dictionary the read races with the
\* write and may give either
LookupOutcomes(key) ==
  LET stored == IF key \in DOMAIN invocations.entries THEN {invocations.entries[key]} ELSE {0}
  IN IF invocations.writers = {} THEN stored ELSE stored \cup {0}

\* lines 733-735
CacheLookup(t) ==
  /\ fatal = "none"
  /\ cacheCalls[t].pc = "lookup"
  /\ \E found \in LookupOutcomes(cacheCalls[t].argCount) :
       cacheCalls' = [cacheCalls EXCEPT ![t].invocation = found,
                        ![t].pc = IF found = 0 THEN "create" ELSE "return"]
  /\ UNCHANGED <<staticVars, registering, waitedFor, finished, construction, image, script, emitter,
                 invocations, queueVars, hostVars, lifeVars, handling, answered, buffers,
                 logged, fatal>>

\* lines 736-738: a new NSInvocation for the signature of argCount objects
CacheCreate(t) ==
  /\ fatal = "none"
  /\ cacheCalls[t].pc = "create"
  /\ invocations' = [invocations EXCEPT !.created = @ + 1]
  /\ cacheCalls' = [cacheCalls EXCEPT ![t].invocation = invocations.created + 1,
                                      ![t].pc = "store"]
  /\ UNCHANGED <<staticVars, registering, waitedFor, finished, construction, image, script, emitter,
                 queueVars, hostVars, lifeVars, handling, answered, buffers, logged, fatal>>

\* line 739: the thread begins to write invocations[key]
CacheStoreBegin(t) ==
  /\ fatal = "none"
  /\ cacheCalls[t].pc = "store"
  /\ invocations' = [invocations EXCEPT !.writers = @ \cup {t}]
  /\ cacheCalls' = [cacheCalls EXCEPT ![t].pc = "storing"]
  /\ UNCHANGED <<staticVars, registering, waitedFor, finished, construction, image, script, emitter,
                 queueVars, hostVars, lifeVars, handling, answered, buffers, logged, fatal>>

\* the write ends; a write that ran beside another write of the dictionary
\* may be stored, may be lost, or may end the process
CacheStoreEnd(t) ==
  /\ fatal = "none"
  /\ cacheCalls[t].pc = "storing"
  /\ LET stored == Put(invocations.entries, cacheCalls[t].argCount, cacheCalls[t].invocation)
         raced == invocations.writers # {t}
     IN \/ /\ invocations' = [invocations EXCEPT !.entries = stored, !.writers = @ \ {t}]
           /\ UNCHANGED fatal
        \/ /\ raced
           /\ invocations' = [invocations EXCEPT !.writers = @ \ {t}]
           /\ fatal' \in {"none", "EXC_BAD_ACCESS"}
  /\ cacheCalls' = [cacheCalls EXCEPT ![t].pc = "return"]
  /\ UNCHANGED <<staticVars, registering, waitedFor, finished, construction, image, script, emitter,
                 queueVars, hostVars, lifeVars, handling, answered, buffers, logged>>

\* line 742
CacheReturn(t) ==
  /\ fatal = "none"
  /\ cacheCalls[t].pc = "return"
  /\ cacheCalls' = [cacheCalls EXCEPT ![t].pc = "idle",
                      ![t].returned = Append(@, [argCount |-> cacheCalls[t].argCount,
                                                 invocation |-> cacheCalls[t].invocation])]
  /\ UNCHANGED <<staticVars, registering, waitedFor, finished, construction, image, script, emitter,
                 invocations, queueVars, hostVars, lifeVars, handling, answered, buffers,
                 logged, fatal>>

NextCache ==
  \/ \E t \in Threads, argCount \in ArgCountInputs : CacheCallBegin(t, argCount)
  \/ \E t \in Threads : CacheLookup(t)
  \/ \E t \in Threads : CacheCreate(t)
  \/ \E t \in Threads : CacheStoreBegin(t)
  \/ \E t \in Threads : CacheStoreEnd(t)
  \/ \E t \in Threads : CacheReturn(t)

SpecCache == InitDecode /\ [][NextCache]_vars

(***************************************************************************)
(* Properties.                                                              *)
(***************************************************************************)
\* the requests of buffer b, read off the buffer itself
Accepted(b) == buffers[b].shape = "ok"
Indexes(b) == 0..(Len(buffers[b].value.v[1].v) - 1)
ReqModule(b, i) == buffers[b].value.v[1].v[i + 1]
ReqMethod(b, i) == buffers[b].value.v[2].v[i + 1].v
ReqParams(b, i) == buffers[b].value.v[3].v[i + 1]

ModuleResolves(b, i) ==
  ReqModule(b, i).t = "num" /\ ReqModule(b, i).v \in DOMAIN RCTRemoteModulesByID
MethodsOf(b, i) == RCTExportedMethodsByModule[RCTRemoteModulesByID[ReqModule(b, i).v]]
MethodResolves(b, i) ==
  ModuleResolves(b, i) /\ ReqMethod(b, i) >= 0 /\ ReqMethod(b, i) < Len(MethodsOf(b, i))
AllResolve(b, i) ==
  /\ MethodResolves(b, i)
  /\ IsArray(ReqParams(b, i))
  /\ Len(ReqParams(b, i).v) = MethodsOf(b, i)[ReqMethod(b, i) + 1].arity

WasInvoked(b, i) == \E k \in DOMAIN invoked : invoked[k].buffer = b /\ invoked[k].index = i
Skipped(b, i) == <<b, i>> \notin scheduled /\ ~WasInvoked(b, i)
\* the loop of _handleBuffer: is past index i of buffer b
Passed(b, i) == buffers[b].done \/ (handling.buffer = b /\ handling.i > i)
Logged(b, i, kind) == [buffer |-> b, index |-> i, kind |-> kind] \in logged
OthersScheduled(b) ==
  buffers[b].done => \A j \in Indexes(b) : AllResolve(b, j) => <<b, j>> \in scheduled

\* no unit of buffer b waits on the queue
NoUnitOf(b) ==
  \A k \in DOMAIN shadowQueue :
    shadowQueue[k].kind \in {"request", "batchDidComplete"} => shadowQueue[k].buffer # b

\* a "Module.method" name that the local modules config holds
Registered(name) ==
  /\ <<name[1]>> \in DOMAIN localModules
  /\ <<name[3]>> \in DOMAIN localModules[<<name[1]>>].methods
SentBy(by) == {i \in DOMAIN sent : sent[i].by = by}

\* C1: no invocation is ever made for a request of a buffer that was handed
\* to _handleBuffer: after -invalidate had been called
C1_NoInvocationAfterInvalidate ==
  \A k \in DOMAIN invoked : buffers[invoked[k].buffer].valid

\* a buffer with a request that resolves was handled after -invalidate and
\* the queue has run all its units
C1_Witness ==
  \E b \in DOMAIN buffers :
    /\ ~buffers[b].valid /\ Accepted(b) /\ buffers[b].done
    /\ \E i \in Indexes(b) : AllResolve(b, i) /\ <<b, i>> \in scheduled
    /\ shadowQueue = <<>> /\ running = NoUnit

\* C2: a call of enqueueJSCall:args: with a registered name made after
\* -invalidate hands no envelope to the executor
C2_NoEnvelopeAfterInvalidate ==
  \A k \in DOMAIN calls :
    (~calls[k].valid /\ Registered(calls[k].name)) => SentBy(<<"call", k>>) = {}

C2_Witness ==
  \E k \in DOMAIN calls : ~calls[k].valid /\ Registered(calls[k].name) /\ fatal = "none"

\* C3: in an accepted buffer handled by a valid bridge a request whose
\* module ID is unknown is never scheduled nor invoked, and once the buffer
\* is handled every request of it that resolves has been scheduled
C3_UnknownModuleSkipped ==
  \A b \in DOMAIN buffers : (Accepted(b) /\ buffers[b].valid) =>
    \A i \in Indexes(b) : ~ModuleResolves(b, i) =>
      /\ Skipped(b, i)
      /\ Passed(b, i) /\ IsArray(ReqParams(b, i)) => Logged(b, i, "unknownModuleID")
      /\ OthersScheduled(b)

C3_Witness ==
  \E b \in DOMAIN buffers : Accepted(b) /\ buffers[b].valid /\ buffers[b].done /\
    \E i, j \in Indexes(b) : i < j /\ ~ModuleResolves(b, i) /\ AllResolve(b, j) /\ WasInvoked(b, j)

\* C4: in an accepted buffer a request whose params count differs from the
\* arity of the resolved method is logged and never scheduled nor invoked,
\* and every request of the buffer that resolves is still scheduled
C4_ArityMismatchSkipped ==
  \A b \in DOMAIN buffers : Accepted(b) =>
    \A i \in Indexes(b) :
      (MethodResolves(b, i) /\ IsArray(ReqParams(b, i)) /\ ~AllResolve(b, i)) =>
        /\ Skipped(b, i)
        /\ Passed(b, i) => Logged(b, i, "arity")
        /\ OthersScheduled(b)

C4_Witness ==
  \E b \in DOMAIN buffers : Accepted(b) /\ buffers[b].done /\
    \E i, j \in Indexes(b) :
      /\ i < j /\ MethodResolves(b, i) /\ ~AllResolve(b, i)
      /\ Len(ReqParams(b, i).v) < MethodsOf(b, i)[ReqMethod(b, i) + 1].arity
      /\ AllResolve(b, j) /\ WasInvoked(b, j)

\* C5: in an accepted buffer a request whose method ID is negative or not
\* below the method count of the resolved module is logged as an unknown
\* method ID without an index out of range, never scheduled nor invoked, and
\* every request of the buffer that resolves is still scheduled
C5_UnknownMethodSkipped ==
  \A b \in DOMAIN buffers : Accepted(b) =>
    \A i \in Indexes(b) :
      (ModuleResolves(b, i) /\ IsArray(ReqParams(b, i)) /\ ~MethodResolves(b, i)) =>
        /\ Skipped(b, i)
        /\ Passed(b, i) => Logged(b, i, "unknownMethodID")
        /\ (handling.buffer = b /\ handling.i = i) => fatal # "NSRangeException"
        /\ OthersScheduled(b)

C5_Witness ==
  \E b \in DOMAIN buffers : Accepted(b) /\ buffers[b].done /\
    \E i, j \in Indexes(b) :
      /\ i < j /\ ModuleResolves(b, i) /\ ReqMethod(b, i) < 0
      /\ Logged(b, i, "unknownMethodID")
      /\ AllResolve(b, j) /\ WasInvoked(b, j)

\* the first three fields of a buffer are arrays of unequal lengths
UnequalLengths(buffer) ==
  /\ IsArray(buffer) /\ Len(buffer.v) >= 3
  /\ \A f \in 1..3 : IsArray(buffer.v[f])
  /\ ~(Len(buffer.v[1].v) = Len(buffer.v[2].v) /\ Len(buffer.v[2].v) = Len(buffer.v[3].v))

\* C6: of a buffer whose first three fields are arrays of unequal lengths
\* no request is ever handled, scheduled or invoked
C6_UnequalLengthsDropped ==
  \A b \in DOMAIN buffers : UnequalLengths(buffers[b].value) =>
    /\ ~Accepted(b)
    /\ handling.buffer # b
    /\ \A i \in 0..MaxRequests : Skipped(b, i)
    /\ NoUnitOf(b)

C6_Witness ==
  \E b \in DOMAIN buffers :
    /\ UnequalLengths(buffers[b].value)
    /\ Len(buffers[b].value.v) = expectedFieldsCount
    /\ Len(buffers[b].value.v[1].v) = Len(buffers[b].value.v[2].v)
    /\ Len(buffers[b].value.v[3].v) = Len(buffers[b].value.v[1].v) - 1
    /\ Logged(b, -1, "lengths")

\* a buffer of exactly n fields whose first three are arrays of one length
ShapeOf(buffer, n) ==
  /\ IsArray(buffer) /\ Len(buffer.v) = n
  /\ \A f \in 1..3 : IsArray(buffer.v[f])
  /\ Len(buffer.v[1].v) = Len(buffer.v[2].v) /\ Len(buffer.v[2].v) = Len(buffer.v[3].v)

C8_UnregisteredNameFatal ==
  \A k \in DOMAIN calls : ~Registered(calls[k].name) =>
    fatal # "none" /\ SentBy(<<"call", k>>) = {}

C8_Witness ==
  \E k \in DOMAIN calls : ~Registered(calls[k].name) /\ calls[k].valid /\ fatal # "none"

\* C9: a call of enqueueJSCall:args: with a registered name M.f on a valid
\* bridge hands exactly one envelope to the executor, for
\* BatchedBridge.callFunctionReturnFlushedQueue, carrying the module ID and
\* the method ID that the local modules config gives M and f, and the args
C9_EnvelopeCarriesConfigIDs ==
  \A k \in DOMAIN calls : (calls[k].valid /\ Registered(calls[k].name)) =>
    /\ Cardinality(SentBy(<<"call", k>>)) = 1
    /\ \A i \in SentBy(<<"call", k>>) :
         /\ sent[i].module = "BatchedBridge"
         /\ sent[i].method = "callFunctionReturnFlushedQueue"
         /\ sent[i].arguments =
              <<Num(localModules[<<calls[k].name[1]>>].moduleID),
                Num(localModules[<<calls[k].name[1]>>].methods[<<calls[k].name[3]>>].methodID),
                Arr(calls[k].args)>>

C9_Witness ==
  \E k \in DOMAIN calls :
    /\ calls[k].valid /\ calls[k].name = <<"RCTEventEmitter", Dot, "receiveEvent">>
    /\ calls[k].args # <<>>
    /\ SentBy(<<"call", k>>) # {}

\* C10: every invocation of a response sender block on a valid bridge hands
\* exactly one envelope to the executor, for
\* BatchedBridge.invokeCallbackAndReturnFlushedQueue, carrying the callback
\* ID of the block and the arguments, however often the block was invoked
C10_EveryBlockCallSends ==
  \A k \in DOMAIN blockCalls : blockCalls[k].valid =>
    /\ Cardinality(SentBy(<<"block", k>>)) = 1
    /\ \A i \in SentBy(<<"block", k>>) :
         /\ sent[i].module = "BatchedBridge"
         /\ sent[i].method = "invokeCallbackAndReturnFlushedQueue"
         /\ sent[i].arguments = <<Num(blockCalls[k].id), Arr(blockCalls[k].args)>>

\* the block of the callback ID 42 was invoked twice and sent twice
C10_Witness ==
  /\ Len(blockCalls) >= 2
  /\ blockCalls[1].id = 42 /\ blockCalls[2].id = 42
  /\ blockCalls[1].valid /\ blockCalls[2].valid
  /\ blockCalls[2].args = <<Str("ok")>>
  /\ SentBy(<<"block", 1>>) # {} /\ SentBy(<<"block", 2>>) # {}

\* the bridge-triggered invocations executing on module m: the request
\* unit on the shadow queue and the registerRootView: call of the caller
ExecutingOn(m) ==
  (IF running # NoUnit /\ running.moduleName = m THEN {UnitID(running)} ELSE {}) \cup
  (IF registering.pc = "calling" /\ registering.target = m
   THEN {<<"registerRootView", m>>} ELSE {})

C12_AscendingOrder ==
  /\ \A k1, k2 \in DOMAIN invoked :
       (k1 < k2 /\ invoked[k1].buffer = invoked[k2].buffer)
         => invoked[k1].index < invoked[k2].index
  /\ \A b \in DOMAIN buffers : Accepted(b) => \A i, j \in Indexes(b) :
       (i < j /\ <<b, i>> \in scheduled /\ WasInvoked(b, j)) => WasInvoked(b, i)
  /\ finished >= Len(invoked) - 1

\* both requests of a batch of two were scheduled before the first was
\* invoked, and now both have been invoked and have finished
C12_Witness ==
  /\ Len(invoked) = 2 /\ finished = 2
  /\ invoked[1].buffer = invoked[2].buffer
  /\ invoked[1].index = 0 /\ invoked[2].index = 1

\* the batchDidComplete rounds of buffer b, waiting or delivered
RoundsOf(b) ==
  Cardinality({k \in DOMAIN shadowQueue :
                 shadowQueue[k].kind = "batchDidComplete" /\ shadowQueue[k].buffer = b}) +
  Cardinality({k \in DOMAIN notified : notified[k].buffer = b})

\* C13: every accepted batch, also an empty one and one whose requests were
\* all skipped, gets exactly one batchDidComplete round, put on the queue
\* behind all request units of the batch and run only when all of them have
\* begun; a nil or shape-rejected buffer gets no request unit and no round.
C13_OneBatchComplete ==
  \A b \in DOMAIN buffers :
    /\ RoundsOf(b) = IF Accepted(b) /\ buffers[b].done THEN 1 ELSE 0
    /\ ~Accepted(b) => /\ NoUnitOf(b)
                       /\ \A u \in scheduled : u[1] # b
    /\ \A k1, k2 \in DOMAIN shadowQueue :
         (/\ shadowQueue[k1].kind = "batchDidComplete" /\ shadowQueue[k1].buffer = b
          /\ shadowQueue[k2].kind = "request" /\ shadowQueue[k2].buffer = b) => k2 < k1
    /\ (\E k \in DOMAIN notified : notified[k].buffer = b) =>
         /\ NoUnitOf(b)
         /\ \A u \in scheduled : u[1] = b => WasInvoked(b, u[2])

\* a batch of two requests that were both skipped, its round delivered
C13_Witness ==
  \E b \in DOMAIN buffers :
    /\ Accepted(b) /\ Indexes(b) = {0, 1}
    /\ \A u \in scheduled : u[1] # b
    /\ \E k \in DOMAIN notified : notified[k].buffer = b

\* -invalidate has been called by some thread
InvalidateCalled == \E t \in Threads : invalidating[t] # "idle"

\* C14: once invalidate() has been called the bridge is never valid again,
\* whatever is called later: host calls, batches, response sender blocks,
\* registerRootView:, further calls of invalidate(), another bridge.
C14_InvalidatedIsTerminal == InvalidateCalled => ~isValid

\* both threads have gone through invalidate(), a batch was processed,
\* registerRootView: was called, a response sender block was invoked after
\* the invalidation and another bridge exists, and the bridge is invalid
C14_Witness ==
  /\ \A t \in Threads : invalidating[t] = "done"
  /\ buffers # <<>> /\ buffers[1].done
  /\ registering.pc = "done"
  /\ blockCalls # <<>> /\ ~blockCalls[1].valid
  /\ latestJSExecutor = "other"
  /\ ~isValid

\* the threads whose teardown loop has been run
PastTeardown == {t \in Threads : invalidating[t] \in {"release", "done"}}

\* C15: invalidate() goes in a fixed order: the bridge is made invalid
\* first; the dispatch_sync barrier then returns only when every unit that
\* was on the queue when it began has run; teardown hooks are called only
\* after the barrier returned; the instances are released only after the
\* teardown hooks of all of them were called.
C15_InvalidateOrder ==
  /\ \A t \in Threads : invalidating[t] # "idle" => ~isValid
  /\ \A t \in Threads :
       invalidating[t] \in {"teardown", "release", "done"} => waitedFor[t] \cap Pending = {}
  /\ \A m \in DOMAIN tornDown : tornDown[m] <= Cardinality(PastTeardown)
  /\ moduleInstances = {} =>
       \A m \in DOMAIN tornDown : RespondsTo(m, "invalidate") => tornDown[m] >= 1

\* a call of invalidate() that found a request unit and a batchDidComplete
\* round on the queue has returned: hooks called, instances released
C15_Witness ==
  \E t \in Threads :
    /\ invalidating[t] = "done"
    /\ \E u \in waitedFor[t] : u[1] = "request"
    /\ \E u \in waitedFor[t] : u[1] = "batchDidComplete"
    /\ tornDown["Alpha"] >= 1
    /\ moduleInstances = {}

\* the wait of the initializer ended by the timeout
TimeoutReported == [buffer |-> 0, index |-> -1, kind |-> "injectTimeout"] \in logged

C17_ReturnsAfterAckOrTimeout ==
  /\ construction.injections <= 1
  /\ construction.pc \in {"wait", "returned"} => construction.injections = 1
  /\ construction.pc = "returned" => (construction.acknowledged \/ construction.timedOut)
  /\ calls # <<>> => (construction.acknowledged \/ construction.timedOut)

\* the initializer returned on the acknowledgement and the creator called
C17_Witness ==
  /\ construction.pc = "returned"
  /\ construction.acknowledged /\ ~construction.timedOut
  /\ construction.injections = 1
  /\ calls # <<>>

\* two module classes of the image claim one module name
SameNameClaimed ==
  \E i, j \in 1..Len(image.classes) :
    /\ i # j
    /\ IsModuleClass(image.classes[i]) /\ IsModuleClass(image.classes[j])
    /\ ModuleNameOf(image.classes[i]) = ModuleNameOf(image.classes[j])

\* C18: when two module classes claim the same module name the build of the
\* registry fails before anything can be dispatched: no instance is made,
\* no config is injected, the initializer never returns a bridge, and no
\* call or request goes through.
C18_DuplicateNameFatal ==
  SameNameClaimed =>
    /\ construction.pc \in {"start", "modules"}
    /\ moduleInstances = {}
    /\ construction.injections = 0
    /\ sent = <<>> /\ invoked = <<>>

\* the registry build has failed on a class list with RCTAlpha and
\* RCTAlphaToo, both named "Alpha"
C18_Witness ==
  /\ SameNameClaimed
  /\ construction.pc = "modules"
  /\ fatal = "RCTCAssert"

\* the IDs of a config: the module IDs are 0..n-1 for its n modules, and the
\* method IDs of each module are 0..k-1 for its k methods, none shared
DenseIDs(config) ==
  LET names == DOMAIN config IN
  /\ {config[n].moduleID : n \in names} = 0..(Cardinality(names) - 1)
  /\ \A n1, n2 \in names : n1 # n2 => config[n1].moduleID # config[n2].moduleID
  /\ \A n \in names :
       LET methods == config[n].methods IN
       /\ {methods[x].methodID : x \in DOMAIN methods} = 0..(Cardinality(DOMAIN methods) - 1)
       /\ \A x1, x2 \in DOMAIN methods : x1 # x2 => methods[x1].methodID # methods[x2].methodID

\* C19 as stated: after the registry build, in both configs no two modules
\* share a module ID, no two methods of a module share a method ID, the
\* module IDs are exactly 0..n-1 and the method IDs of a module exactly
\* 0..k-1.  Violated by the remote config of a module with two exported
\* methods of one JS name.
C19_DenseIDs ==
  construction.pc \in {"wait", "returned"} =>
    DenseIDs(remoteModules) /\ DenseIDs(localModules)

\* the request unit of index i of buffer b waits on the shadow queue
Waiting(b, i) ==
  \E k \in DOMAIN shadowQueue :
    /\ shadowQueue[k].kind = "request"
    /\ shadowQueue[k].buffer = b /\ shadowQueue[k].index = i

\* C20: an exception raised by the invocation of a request is caught and
\* goes no further: the process goes on, every request of the batch that
\* was scheduled is invoked or still waits for its turn on the queue, and
\* the batchDidComplete round of the batch is put on the queue and delivered
\* as for a batch without exception.
C20_ExceptionCaught ==
  \A b \in DOMAIN buffers :
    (Accepted(b) /\ \E i \in Indexes(b) : Logged(b, i, "exception")) =>
      /\ fatal = "none"
      /\ \A j \in Indexes(b) : <<b, j>> \in scheduled => (WasInvoked(b, j) \/ Waiting(b, j))
      /\ buffers[b].done => RoundsOf(b) = 1
      /\ (buffers[b].done /\ shadowQueue = <<>>) =>
           /\ \A j \in Indexes(b) : <<b, j>> \in scheduled => WasInvoked(b, j)
           /\ \E k \in DOMAIN notified : notified[k].buffer = b

\* the invocation of request 0 raised; request 1 of the same batch was
\* invoked after it and the round of the batch was delivered
C20_Witness ==
  \E b \in DOMAIN buffers :
    /\ Accepted(b)
    /\ Logged(b, 0, "exception") /\ ~Logged(b, 1, "exception")
    /\ \E k \in DOMAIN invoked : k > 1 /\ invoked[k].buffer = b /\ invoked[k].index = 1
    /\ finished = 2
    /\ \E k \in DOMAIN notified : notified[k].buffer = b

\* the static tables of the process have been built
TablesBuilt == construction.pc \in {"wait", "returned"}

\* C21: once built, the static tables (RCTRemoteModulesByID, the remote and
\* the local modules config, RCTLocalModuleIDs, RCTLocalMethodIDs) are left
\* as they are by every step: host calls, buffers, response sender blocks,
\* invalidate and the construction of another bridge.
C21_TablesBuiltOnce == [][TablesBuilt => staticVars' = staticVars]_vars

\* another bridge was constructed, the first one was called, answered, its
\* blocks invoked, and it was invalidated
C21_Witness ==
  /\ TablesBuilt /\ remoteModules # EmptyDict /\ localModules # EmptyDict
  /\ latestJSExecutor = "other"
  /\ sent # <<>> /\ buffers # <<>> /\ buffers[1].done
  /\ blockCalls # <<>>
  /\ \E t \in Threads : invalidating[t] = "done"

\* the invocations the calls of +invocationForAdditionalArguments: returned
CacheReturned == UNION {RangeOf(cacheCalls[t].returned) : t \in Threads}

\* C22 as stated: the cache of invocations is never written by two threads
\* at once, and two calls with the same argument count get the same cached
\* invocation.  Violated: only the creation of the dictionary is under
\* dispatch_once; two threads that both find no entry both create an
\* invocation and both write the unsynchronized NSMutableDictionary.
C22_CacheRaceSafe ==
  /\ Cardinality(invocations.writers) <= 1
  /\ \A r1, r2 \in CacheReturned : r1.argCount = r2.argCount => r1.invocation = r2.invocation

\* the config handed to injectJSONText: (lines 387-392)
ConfigInjected == construction.injections > 0

\* lines 585-597: the method the dispatcher selects for a module ID and a
\* method ID, among the exported methods of the image
DispatcherSelects(moduleID, methodID) ==
  ExportedMethodsFrom(image.section, 1, EmptyDict)[RCTRemoteModulesByID[moduleID]][methodID + 1]

\* C23: the injected config agrees with the tables of the dispatcher: the
\* module-ID table maps the moduleID of every remote module to its name,
\* the method selected for (moduleID, methodID) of every remote entry has
\* the entry's exposed name, every remote entry has type "remote" and every
\* local entry has type "local".
C23_ConfigAgreesWithDispatcher ==
  ConfigInjected =>
    /\ \A N \in DOMAIN remoteModules :
         LET m == remoteModules[N].moduleID
             methods == remoteModules[N].methods
         IN /\ m \in DOMAIN RCTRemoteModulesByID
            /\ RCTRemoteModulesByID[m] = N
            /\ \A methodName \in DOMAIN methods :
                 LET k == methods[methodName].methodID
                 IN /\ k + 1 \in DOMAIN ExportedMethodsFrom(image.section, 1, EmptyDict)[N]
                    /\ DispatcherSelects(m, k).JSMethodName = methodName
                    /\ methods[methodName].type = "remote"
    /\ \A N \in DOMAIN localModules :
         \A methodName \in DOMAIN localModules[N].methods :
           localModules[N].methods[methodName].type = "local"

\* a config with two remote modules, one of two methods, is injected
C23_Witness ==
  /\ ConfigInjected
  /\ Cardinality(DOMAIN remoteModules) >= 2
  /\ \E N \in DOMAIN remoteModules : Cardinality(DOMAIN remoteModules[N].methods) >= 2
  /\ localModules # EmptyDict

\* a call of invalidate() has returned
InvalidateReturned == \E t \in Threads : invalidating[t] = "done"

\* the request units scheduled and never invoked, with no unit left to run
SkippedUnits ==
  {u \in scheduled : /\ \A k \in DOMAIN invoked : <<invoked[k].buffer, invoked[k].index>> # u
                     /\ \A k \in DOMAIN shadowQueue : shadowQueue[k].kind = "request" =>
                          <<shadowQueue[k].buffer, shadowQueue[k].index>> # u}

\* C24: once invalidate() has returned no method of a module is executing
\* and none begins: the units scheduled while the bridge was valid and not
\* begun at the flip, and the units a batch handled beside invalidate()
\* scheduled, return at their check of isValid.
C24_NoInvocationAfterInvalidate ==
  /\ [](InvalidateReturned => running = NoUnit)
  /\ [][InvalidateReturned => invoked' = invoked]_vars

\* invalidate() has returned; a unit scheduled while the bridge was valid
\* and waiting at the barrier was skipped, and so was a unit that a batch
\* still being handled scheduled behind the barrier
C24_Witness ==
  \E t \in Threads :
    /\ invalidating[t] = "done"
    /\ shadowQueue = <<>>
    /\ \E u \in SkippedUnits : buffers[u[1]].valid /\ <<"request", u[1], u[2]>> \in waitedFor[t]
    /\ \E u \in SkippedUnits : <<"request", u[1], u[2]>> \notin waitedFor[t]

\* the invocations of buffer b, by their place in the order of beginning
InvocationsOf(b) == {j \in DOMAIN invoked : invoked[j].buffer = b}

\* C25: the batchDidComplete round of an accepted batch begins only after
\* every invocation of a request of that batch has finished, not merely
\* begun: when the round has run, every invocation of the batch has
\* returned and no unit was executing when the round began.
C25_CompleteAfterFinished ==
  \A k \in DOMAIN notified :
    /\ notified[k].beside = NoUnit
    /\ \A j \in InvocationsOf(notified[k].buffer) : j <= finished
    /\ \A u \in scheduled : u[1] = notified[k].buffer =>
         \E j \in InvocationsOf(u[1]) : invoked[j].index = u[2]

\* the round of a batch of two requests, both invoked, has run
C25_Witness ==
  \E k \in DOMAIN notified :
    /\ Cardinality(InvocationsOf(notified[k].buffer)) = 2
    /\ notified[k].targets # {}

\* the buffers handed to _handleBuffer: for envelope e
BuffersFor(e) == {b \in DOMAIN buffers : buffers[b].source = e}

\* the indexes of buffer b that pass the checks of the dispatcher
PassingIndexes(b) ==
  {i \in 0..(NumRequests(buffers[b].value) - 1) :
     RequestCheck(ModuleIDAt(buffers[b].value, i), MethodIDAt(buffers[b].value, i),
                  ParamsAt(buffers[b].value, i)) = "ok"}

MethodOfRequest(b, i) == MethodsOf(b, i)[ReqMethod(b, i) + 1]
ParamOfRequest(b, i, idx) == ReqParams(b, i).v[idx + 1]

\* the request unit of index i of buffer b was scheduled and has left the queue
UnitRan(b, i) ==
  /\ <<b, i>> \in scheduled
  /\ \A k \in DOMAIN shadowQueue :
       shadowQueue[k].kind = "request" => <<shadowQueue[k].buffer, shadowQueue[k].index>> # <<b, i>>

\* a numeric callback ID or null at every block index of the request
CallbackIDsGiven(b, i) ==
  \A idx \in MethodOfRequest(b, i).blockArgumentIndexes :
    ParamOfRequest(b, i, idx).t \in {"num", "null"}

\* C27 as stated: a request whose values at the block indexes are numeric
\* IDs or null is invoked with, at every block index, the callback of the
\* ID when it is not zero and nil when the value is zero or null, and with
\* no block at any other index.  Violated: for the ID 0
\* createResponseSenderBlock: returns nil and [blocks addObject:nil]
\* raises outside the @try, so the method is never invoked.
C27_CallbackOrNil ==
  \A u \in scheduled :
    (UnitRan(u[1], u[2]) /\ CallbackIDsGiven(u[1], u[2])) =>
      \E k \in DOMAIN invoked :
        /\ invoked[k].buffer = u[1] /\ invoked[k].index = u[2]
        /\ \A idx \in 0..(Len(invoked[k].args) - 1) :
             LET param == ParamOfRequest(u[1], u[2], idx)
                 arg == invoked[k].args[idx + 1]
             IN IF idx \in MethodOfRequest(u[1], u[2]).blockArgumentIndexes
                THEN arg = IF param.t = "num" /\ param.v # 0 THEN Block(param.v) ELSE Nil
                ELSE arg.t # "block"

\* the invocation begun for index i of buffer b
InvocationOfRequest(b, i) ==
  CHOOSE k \in DOMAIN invoked : invoked[k].buffer = b /\ invoked[k].index = i

\* the params of a request that take the place of a C int and cannot be
\* coerced: they do not respond to intValue
UncoercedIndexes(b, i) ==
  {idx \in 0..(Len(ReqParams(b, i).v) - 1) :
     /\ MethodOfRequest(b, i).types[idx + 1] = "i"
     /\ ParamOfRequest(b, i, idx).t \notin {"num", "str"}}

\* C28: a request that passed the checks and has a param that cannot be
\* coerced to the C type of its slot is still invoked: that slot holds the
\* raw value (nil for null), the int slots that can be coerced hold the
\* int, the object slots the object.
C28_UncoercedPassedRaw ==
  \A u \in scheduled :
    (/\ UnitRan(u[1], u[2])
     /\ UncoercedIndexes(u[1], u[2]) # {}
     /\ ~MarshalRaises(MethodOfRequest(u[1], u[2]), ReqParams(u[1], u[2]).v)) =>
      /\ WasInvoked(u[1], u[2])
      /\ \A idx \in 0..(Len(ReqParams(u[1], u[2]).v) - 1) :
           LET param == ParamOfRequest(u[1], u[2], idx)
               type == MethodOfRequest(u[1], u[2]).types[idx + 1]
               arg == invoked[InvocationOfRequest(u[1], u[2])].args[idx + 1]
           IN /\ idx \in UncoercedIndexes(u[1], u[2]) =>
                   arg = IF param = Null THEN Nil ELSE param
              /\ (type = "i" /\ param.t = "num") => arg = CInt(param.v)
              /\ (type = "i" /\ param.t = "str") => arg.t = "int"
              /\ (type = "@" /\ param # Null) => arg = param
              /\ (type = "@?" /\ param.t = "num") => arg = Block(param.v)

\* fetch:callback: was invoked with an array where it takes an int, and with
\* the block of the ID 42
C28_Witness ==
  \E k \in DOMAIN invoked :
    /\ invoked[k].selector = <<"fetch", "callback">>
    /\ invoked[k].args = <<Arr(<<>>), Block(42)>>
    /\ finished >= k

\* receiveTouches has been called
TouchesReceived == emitter.pc \in {"loop", "returned"}

\* the touches given at the indices named, in the order named
TouchesAtChangedIndices ==
  [k \in 1..Len(emitter.changedIndices) |-> emitter.given[emitter.changedIndices[k] + 1]]

\* the touches given at the indices not named, in the order given
RECURSIVE RemainingFrom(_)
RemainingFrom(k) ==
  IF k > Len(emitter.given) THEN <<>>
  ELSE (IF k - 1 \in RangeOf(emitter.changedIndices) THEN <<>> ELSE <<emitter.given[k]>>)
       \o RemainingFrom(k + 1)

\* C29: for topTouchEnd and topTouchCancel the touches of every event
\* dispatched hold none of the changed touches and the others in the order
\* given; for the other types touches is the array given, the changed
\* touches still in it; changedTouches is the touches at changedIndices,
\* in that order.
C29_TouchesAndChangedTouches ==
  TouchesReceived =>
    /\ emitter.changedTouches = TouchesAtChangedIndices
    /\ IF emitter.eventTopLevelType \in {"topTouchEnd", "topTouchCancel"}
       THEN /\ emitter.touches = RemainingFrom(1)
            /\ RangeOf(emitter.touches) \cap RangeOf(emitter.changedTouches) = {}
       ELSE /\ emitter.touches = emitter.given
            /\ RangeOf(emitter.changedTouches) \subseteq RangeOf(emitter.touches)
    /\ \A k \in DOMAIN emitter.dispatched :
         /\ emitter.dispatched[k].nativeEvent.touches = emitter.touches
         /\ emitter.dispatched[k].nativeEvent.changedTouches = emitter.changedTouches

\* a cancel of the third and the first of three touches has dispatched its
\* two events, the second touch alone left in touches
C29_Witness ==
  /\ emitter.pc = "returned"
  /\ emitter.eventTopLevelType = "topTouchCancel"
  /\ Len(emitter.given) = 3
  /\ emitter.changedIndices = <<2, 0>>
  /\ Len(emitter.dispatched) = 2
  /\ Len(emitter.touches) = 1

\* a touch with a target that is neither null nor undefined and is below
\* tagsStartAt
BelowTagsStartAt(touch) ==
  touch.target.t = "num" /\ touch.target.v < emitter.tagsStartAt

\* the changed touches dispatched among the first n
RECURSIVE DispatchedOf(_)
DispatchedOf(n) ==
  IF n = 0 THEN <<>>
  ELSE DispatchedOf(n - 1) \o
       (IF BelowTagsStartAt(emitter.changedTouches[n]) THEN <<>>
        ELSE <<emitter.changedTouches[n]>>)

\* C30: one event per changed touch, in the order of changedIndices, but
\* none for a touch whose target is below tagsStartAt, and the touches
\* behind such a touch still get theirs; the event of a touch with a null
\* or undefined target has the root node ID null.
C30_OneEventPerChangedTouch ==
  TouchesReceived =>
    LET expected == DispatchedOf(emitter.jj)
    IN /\ emitter.pc = "returned" => emitter.jj = Len(emitter.changedTouches)
       /\ Len(emitter.dispatched) = Len(expected)
       /\ \A k \in DOMAIN emitter.dispatched :
            LET event == emitter.dispatched[k]
            IN /\ event.nativeEvent.identifier = expected[k].identifier
               /\ event.topLevelType = emitter.eventTopLevelType
               /\ event.rootNodeID = IF expected[k].target \in {Null, Undefined} THEN Null
                                     ELSE getRootNodeID(expected[k].target)

\* of three changed touches the first was skipped for its target 0, the
\* second dispatched with the root node ID null, the third with that of
\* its view
C30_Witness ==
  /\ emitter.pc = "returned"
  /\ Len(emitter.changedTouches) = 3
  /\ BelowTagsStartAt(emitter.changedTouches[1])
  /\ Len(emitter.dispatched) = 2
  /\ emitter.dispatched[1].rootNodeID = Null
  /\ emitter.dispatched[2].rootNodeID # Null

\* the exported methods of the image, as the dispatcher indexes them
ExportedOfImage == ExportedMethodsFrom(image.section, 1, EmptyDict)

\* C31 as stated: for every remote module the methods of the injected
\* config map the exposed names one to one onto the method IDs 0..k-1 of
\* the k exported methods of the module, so every exported method has a
\* name the script side can call it by, also when two methods of a module
\* share a JS name.  Violated: methods[method.JSMethodName] (line 240) is
\* overwritten by the later method of the same name.
C31_MethodsBijection ==
  ConfigInjected =>
    \A N \in DOMAIN remoteModules :
      LET methods == remoteModules[N].methods
          k == Len(ExportedOfImage[N])
      IN /\ \A id \in 0..(k - 1) :
              \E methodName \in DOMAIN methods : methods[methodName].methodID = id
         /\ \A n1, n2 \in DOMAIN methods :
              methods[n1].methodID = methods[n2].methodID => n1 = n2
         /\ \A methodName \in DOMAIN methods : methods[methodName].methodID \in 0..(k - 1)

\* the bridge is constructed and valid
ActiveBridge == construction.pc \in {"wait", "returned"} /\ isValid

\* C32 as stated: on an active bridge every module the module-ID table
\* resolves has an instance among the module instances, also a module
\* whose exported methods belong to a class that is no RCTBridgeModule.
\* Violated: the table is built from the classes named in the export
\* section, the instances from the classes conforming to RCTBridgeModule.
C32_ResolvedModuleHasInstance ==
  ActiveBridge =>
    \A moduleID \in DOMAIN RCTRemoteModulesByID :
      RCTRemoteModulesByID[moduleID] \in moduleInstances

\* a batchDidComplete round is delivered in this step
RoundDelivered == Len(notified') = Len(notified) + 1

\* the threads inside the teardown loop of -invalidate or about to empty
\* the module instances (lines 429-434)
TearingDown == {t \in Threads : invalidating[t] \in {"teardown", "release"}}

\* C33 as stated: no batchDidComplete reaches a module instance after its
\* invalidate hook was called or while a thread is in the teardown loop,
\* and no round enumerates the module instances while a thread is about to
\* empty them, however _handleBuffer: and -invalidate interleave.
\* Violated: the round a buffer puts on the queue behind the barrier of
\* -invalidate does not check isValid and runs beside lines 429-434.
C33_NoRoundAfterTeardown ==
  [][RoundDelivered =>
       /\ \A m \in notified'[Len(notified')].targets : tornDown[m] = 0
       /\ notified'[Len(notified')].targets # {} => TearingDown = {}]_vars

\* C34 as stated: however the calls of -invalidate on one bridge follow or
\* overlap, also from two threads, the invalidate hook of each module
\* instance is called at most once.  Violated: nothing keeps a second
\* thread from the teardown loop before the first has emptied the module
\* instances.
C34_TeardownAtMostOnce == \A m \in DOMAIN tornDown : tornDown[m] <= 1

\* the invocations begun for index i of buffer b
InvocationsAt(b, i) == {k \in DOMAIN invoked : invoked[k].buffer = b /\ invoked[k].index = i}

\* C35: every index of an accepted buffer is invoked at most once, and only
\* when its params are an array, its module ID and its method ID resolve
\* and the count of its params is the arity of the method; a request whose
\* params are no array is logged and skipped, and the requests of the
\* buffer that pass the checks are scheduled all the same.
C35_InvokedOnceIfChecksPass ==
  \A b \in DOMAIN buffers : Accepted(b) =>
    \A i \in Indexes(b) :
      /\ Cardinality(InvocationsAt(b, i)) <= 1
      /\ WasInvoked(b, i) => AllResolve(b, i) /\ <<b, i>> \in scheduled
      /\ ~IsArray(ReqParams(b, i)) =>
           /\ Skipped(b, i)
           /\ Passed(b, i) => Logged(b, i, "invalidTuple")
           /\ OthersScheduled(b)

\* the first request of a buffer had a dictionary for its params and was
\* skipped, the second was invoked
C35_Witness ==
  \E b \in DOMAIN buffers :
    /\ Accepted(b) /\ buffers[b].done
    /\ ReqParams(b, 0) = Dict /\ ModuleResolves(b, 0)
    /\ Logged(b, 0, "invalidTuple")
    /\ Cardinality(InvocationsAt(b, 1)) = 1
    /\ finished = 1

\* index i of buffer b is a request of an accepted buffer that passes the
\* checks of module, method and arity
PassesChecks(b, i) ==
  /\ b \in DOMAIN buffers /\ Accepted(b)
  /\ i \in Indexes(b) /\ AllResolve(b, i)

\* the batchDidComplete round of buffer b has run
RoundDeliveredFor(b) == \E k \in DOMAIN notified : notified[k].buffer = b

\* C36 as stated: under fair scheduling and with -invalidate never called,
\* every request of an accepted buffer that passes the checks is invoked in
\* the end, and the batchDidComplete round of the buffer is delivered in
\* the end.  Violated by a request with the callback ID 0 at a block index
\* (C27): its unit raises before the invocation and ends the process.
C36_EventuallyInvokedAndCompleted ==
  /\ \A b \in 1..MaxBuffers, i \in 0..(MaxRequests - 1) :
       PassesChecks(b, i) ~> WasInvoked(b, i)
  /\ \A b \in 1..MaxBuffers :
       (b \in DOMAIN buffers /\ Accepted(b)) ~> RoundDeliveredFor(b)

\* C37: the parts of the claim that every state satisfies: onComplete is
\* called at most once; after a failed load it got the load error, the
\* flushed queue was not requested and no batch was processed; after a load
\* the flushed queue was requested once and onComplete was called only when
\* _handleBuffer: had returned for its result.
OnCompleteInOrder ==
  /\ Len(script.completions) <= 1
  /\ script.flushedQueueRequests <= 1
  /\ script.completions = <<"scriptLoadError">> =>
       script.flushedQueueRequests = 0 /\ script.buffer = 0 /\ buffers = <<>>
  /\ (script.completions # <<>> /\ script.completions # <<"scriptLoadError">>) =>
       /\ script.flushedQueueRequests = 1
       /\ script.buffer \in 1..Len(buffers)
       /\ buffers[script.buffer].done

\* C37: enqueueApplicationScript calls onComplete exactly once: every call
\* is followed by one call of onComplete (with the load error and without
\* any request of the flushed queue or batch when the load failed, after
\* the one flushed queue was processed when it succeeded), never by more.
C37_OnCompleteExactlyOnce ==
  /\ [](OnCompleteInOrder)
  /\ (script.pc # "idle") ~> (Len(script.completions) = 1)

====
